---- MODULE Spec2Model ----
(***************************************************************************)
(* Verification model of the gsa_scraper crawl-and-reconcile pipeline:     *)
(*   - sortGameweeksByDate   (src/lib/sort_gameweeks.js)                   *)
(*   - verifyGameweekData    (src/lib/gameweek_verification.js)            *)
(*   - withRetry             (src/utils/utilities.js)                      *)
(*   - scrapeGameweeks       (src/lib/league_scraper.js)                   *)
(*   - scrapeTournament      (src/lib/league_scraper.js)                   *)
(*   - scrapeLeagueStanding  (src/lib/scrape_standing.js)                  *)
(*   - scrapeSeasonsLinks    (src/lib/scrape_season_links.js)              *)
(*                                                                         *)
(* JavaScript strings are sequences of UTF-16 code units, so that the      *)
(* template-literal signatures, String.prototype.sort order and the        *)
(* date regular expression are computed the way the code computes them.    *)
(***************************************************************************)
EXTENDS Integers, Sequences, FiniteSets, TLC

VARIABLES
    \* ---- Sequencer / Verifier called as pure functions
    fpc,            \* position of the caller: "input", "sorted", "resorted", "verified"
    gameweeks,      \* the argument handed to sortGameweeksByDate / verifyGameweekData
    sortedOnce,     \* sortGameweeksByDate(gameweeks)
    sortedTwice,    \* sortGameweeksByDate(sortedOnce)
    verdict,        \* outcome of verifyGameweekData(gameweeks, expected)
    \* ---- withRetry
    rpc,            \* position inside withRetry
    maxRetries,     \* parameter
    maxWaitForReconnect, \* parameter (ms)
    attempt,        \* loop variable
    opResults,      \* outcome of each call of operation(), in call order
    backoffs,       \* duration (ms) of each backoff wait performed
    reconnects,     \* one record per reconnection wait loop entered
    elapsed,        \* Date.now() - startTime inside the reconnection loop (ms)
    probes,         \* outcome of each reachability probe of the current loop
    lastError,      \* withRetry's lastError
    retryOutcome,   \* what withRetry returned or threw
    \* ---- scrapeGameweeks
    pc,             \* position inside scrapeGameweeks
    maxGameweeks,   \* #maxweek read from the page
    finalExpectedMatches,
    week,           \* loop variable
    retryCount,     \* per-gameweek retry counter
    allMatches,     \* accepted gameweeks
    matchSignatures,\* running signature set
    errorSignal,    \* season error flag
    returned,       \* what scrapeGameweeks returned
    weekAttempts,   \* history: per gameweek index, the attempts made
    lastAttempt,    \* history: how the latest attempt ended and its count of new matches
    \* ---- scrapeTournament
    tpc,            \* position inside scrapeTournament
    maxRescrapeCount,
    rescrapeOption, \* options.maxRescrapeCount (0: absent or 0)
    seasonLinks,    \* what Season Discovery returned
    seasonIndex,    \* loop variable i (the model counts from 1)
    rescrapeIndex,  \* loop variable j
    firstAttempt,   \* "gameweeks": what the first crawl attempt of the season returned
    isErrorResolved,
    results,        \* the composed bucket
    repairedData,   \* the repaired bucket
    erroneousData,  \* the erroneous bucket
    files,          \* artifact files written so far
    attemptFlags,   \* history: per season, the error flag of each crawl attempt
    placements,     \* history: one <<season index, bucket>> per push
    leaguesOnlyOption, \* !!options.leaguesOnly
    landingKind,    \* history: what the league check of Season Discovery found
    \* ---- scrapeLeagueStanding called as a function of the page it reads
    spc,            \* position of the caller: "input", "scraped"
    standingPage,   \* the season page
    standingResult, \* what scrapeLeagueStanding returned or that it threw
    \* ---- scrapeSeasonsLinks
    dpc,            \* position inside scrapeSeasonsLinks
    leaguesOnly,    \* parameter
    seasonOptions,  \* the options read from the season dropdown
    targetSeasons,  \* the options that pass the season filter
    cursor,         \* position of "for (const season of targetSeasons)"
    validSeasons,   \* the accepted season links
    checkedSeasons, \* history: the labels of the seasons whose check was started
    discovered,     \* what scrapeSeasonsLinks returned
    \* ---- gameweek navigation
    npc,            \* position inside the navigation code
    hasWeeksDiv,    \* the page has '#weeks .week_num' controls
    hasDropdown,    \* the page has a '#week_select' dropdown
    navMax,         \* #maxweek of the season page
    displayed,      \* the gameweek index the '#week_sel' label shows
    pendingUpdates, \* page updates asked for by a click or a select, not yet rendered
    navWeek,        \* loop variable "week"
    navRetryCount,  \* retryCount of the current gameweek
    opRuns,         \* runs of the navigation operation by the current withRetry call
    currentGameweek,\* local of the stepping loop
    strategyUsed,   \* history: the branch the latest navigation took
    \* ---- stabilization wait
    wpc,            \* position: "between", "selector", "poll", "stable"
    prevMatchCount, \* window.__prevMatchCount (0: undefined)
    rowCount,       \* match rows in '#week_container'
    teamsPopulated, \* every row has its '.gsa-c-team_full'
    pollsInWait,    \* history: evaluations of the predicate made by the current wait
    waitsStarted,   \* history: stabilization waits started
    \* ---- browser sessions
    sessPc,         \* position inside the current call
    openSessions,   \* browsers launched and not closed
    callsMade,      \* calls of scrapeSeasonsLinks and scrapeGameweeks started
    callKind,       \* "discovery" or "crawl"
    exitPath,       \* how the try block of the current call was left
    closedSessions  \* history: sessions closed

seqVars    == <<fpc, gameweeks, sortedOnce, sortedTwice, verdict>>
retryVars  == <<rpc, maxRetries, maxWaitForReconnect, attempt, opResults, backoffs,
                reconnects, elapsed, probes, lastError, retryOutcome>>
scrapeVars == <<pc, maxGameweeks, finalExpectedMatches, week, retryCount, allMatches,
                matchSignatures, errorSignal, returned, weekAttempts, lastAttempt>>
tourVars   == <<tpc, maxRescrapeCount, seasonLinks, seasonIndex, rescrapeIndex, firstAttempt,
                isErrorResolved, results, repairedData, erroneousData, files,
                attemptFlags, placements, leaguesOnlyOption, landingKind,
                rescrapeOption>>
discVars   == <<spc, standingPage, standingResult, dpc, leaguesOnly, seasonOptions,
                targetSeasons, cursor, validSeasons, checkedSeasons, discovered>>
navVars    == <<npc, hasWeeksDiv, hasDropdown, navMax, displayed, pendingUpdates, navWeek,
                navRetryCount, opRuns, currentGameweek, strategyUsed>>
stabVars   == <<wpc, prevMatchCount, rowCount, teamsPopulated, pollsInWait, waitsStarted>>
sessVars   == <<sessPc, openSessions, callsMade, callKind, exitPath, closedSessions>>
vars       == <<seqVars, retryVars, scrapeVars, tourVars, discVars, navVars, stabVars,
                sessVars>>

-----------------------------------------------------------------------------
(* Bounds of the model *)

\* longest gameweek sequence handed to the Sequencer / Verifier
MaxGameweeks == 3
\* most matches, over all gameweeks, in one such sequence
MaxTotalMatches == 3

-----------------------------------------------------------------------------
(* JavaScript strings *)

sEmpty   == << >>
sA       == <<65>>                       \* "A"
sB       == <<66>>                       \* "B"
sC       == <<67>>                       \* "C"
sAbarB   == <<65, 124, 66>>              \* "A|B"
sBbarC   == <<66, 124, 67>>              \* "B|C"
sPipe    == <<124>>                      \* "|"
sSemi    == <<59>>                       \* ";"
sUnplayed == <<58>>                      \* ":"
s10      == <<49, 58, 48>>               \* "1:0"
s21      == <<50, 58, 49>>               \* "2:1"
sTBD     == <<84, 66, 68>>               \* "TBD"
s1500    == <<49, 53, 58, 48, 48>>       \* "15:00"
s1800    == <<49, 56, 58, 48, 48>>       \* "18:00"
sUrl1    == <<47, 49>>                   \* "/1"
sUrl2    == <<47, 50>>                   \* "/2"
sUrl3    == <<47, 51>>                   \* "/3"
sUrl4    == <<47, 52>>                   \* "/4"
sUrl5    == <<47, 53>>                   \* "/5"
d0725    == <<50,48,50,50,45,48,55,45,50,53>>   \* "2022-07-25"
d0801    == <<50,48,50,50,45,48,56,45,48,49>>   \* "2022-08-01"
d0815    == <<50,48,50,50,45,48,56,45,49,53>>   \* "2022-08-15"
dLate    == <<57,57,57,57,45,49,50,45,51,49>>   \* "9999-12-31"

isDigit(c) == c \in 48..57

\* a < b in the order of String comparison by UTF-16 code units
RECURSIVE strLess(_, _)
strLess(a, b) ==
    IF b = << >> THEN FALSE
    ELSE IF a = << >> THEN TRUE
    ELSE IF a[1] # b[1] THEN a[1] < b[1]
    ELSE strLess(Tail(a), Tail(b))

\* Array.prototype.sort() without comparator on an array of strings (stable)
RECURSIVE insertString(_, _)
insertString(x, s) ==
    IF s = << >> THEN <<x>>
    ELSE IF strLess(x, s[1]) THEN <<x>> \o s
    ELSE <<s[1]>> \o insertString(x, Tail(s))

RECURSIVE sortStrings(_)
sortStrings(s) ==
    IF s = << >> THEN << >>
    ELSE insertString(s[Len(s)], sortStrings(SubSeq(s, 1, Len(s) - 1)))

\* Array.prototype.join(sep)
RECURSIVE join(_, _)
join(s, sep) ==
    IF s = << >> THEN << >>
    ELSE IF Len(s) = 1 THEN s[1]
    ELSE s[1] \o sep \o join(Tail(s), sep)

\* date && /^\d{4}-\d{2}-\d{2}$/.test(date)
isValidDate(date) ==
    /\ Len(date) = 10
    /\ \A i \in {1, 2, 3, 4, 6, 7, 9, 10} : isDigit(date[i])
    /\ date[5] = 45
    /\ date[8] = 45

\* a.localeCompare(b), on the only strings it is applied to (dates of the form
\* YYYY-MM-DD, ASCII digits and hyphens, where collation order is code-unit order)
localeCompare(a, b) == IF strLess(a, b) THEN -1 ELSE IF strLess(b, a) THEN 1 ELSE 0

\* slip: the kick-off time is made part of the signature
signatureWithTime(m) ==
    m.homeTeam \o sPipe \o m.awayTeam \o sPipe \o m.date \o sPipe \o m.time \o sPipe \o m.score

\* `${m.homeTeam}|${m.awayTeam}|${m.date}|${m.score}`
signature(m) == m.homeTeam \o sPipe \o m.awayTeam \o sPipe \o m.date \o sPipe \o m.score

-----------------------------------------------------------------------------
(* Matches and gameweeks *)

Match(d, t, h, a, sc, u) ==
    [date |-> d, time |-> t, homeTeam |-> h, awayTeam |-> a, score |-> sc, statsUrl |-> u]

matchA  == Match(d0815, s1500, sA, sB, s21, sUrl1)
matchB  == Match(d0801, s1500, sAbarB, sC, sUnplayed, sUrl2)
matchB2 == Match(d0801, s1800, sA, sBbarC, sUnplayed, sUrl3)  \* other teams, same signature string as matchB
matchC  == Match(d0725, sTBD, sB, sA, s10, sUrl4)
matchX  == Match(sEmpty, sTBD, sB, sA, s10, sUrl5)            \* no date heading preceded the row

\* the matches gameweeks are drawn from
MatchList == <<matchA, matchB, matchB2, matchC, matchX>>

Matches == {MatchList[i] : i \in 1..Len(MatchList)}

\* all sequences over S of length exactly n
RECURSIVE seqsOfLen(_, _)
seqsOfLen(S, n) ==
    IF n = 0 THEN {<< >>}
    ELSE {<<x>> \o s : x \in S, s \in seqsOfLen(S, n - 1)}

\* the shapes of all gameweek sequences of at most n gameweeks holding at most budget
\* matches in all: per gameweek, the positions in MatchList of its matches
RECURSIVE gameweekShapes(_, _)
gameweekShapes(n, budget) ==
    IF n = 0 THEN {<< >>}
    ELSE {<< >>} \cup
         UNION {
            {<<ms>> \o rest :
                ms \in seqsOfLen(1..Len(MatchList), k),
                rest \in gameweekShapes(n - 1, budget - k)}
            : k \in 0..budget}

\* the gameweek sequence of a shape; the gameweek field is the navigation index
gameweeksOf(shape) ==
    [i \in 1..Len(shape) |->
        [gameweek |-> i, matches |-> [j \in 1..Len(shape[i]) |-> MatchList[shape[i][j]]]]]

\* all matches of a gameweek sequence, in order
RECURSIVE flatten(_)
flatten(gws) ==
    IF gws = << >> THEN << >> ELSE gws[1].matches \o flatten(Tail(gws))

Range(s) == {s[i] : i \in 1..Len(s)}

mapSignature(ms) == [i \in 1..Len(ms) |-> signature(ms[i])]
mapDate(ms)      == [i \in 1..Len(ms) |-> ms[i].date]

-----------------------------------------------------------------------------
(* sortGameweeksByDate *)

\* gw.matches && gw.matches.length > 0 && gw.matches.some(match => valid date)
hasValidMatch(gw) ==
    /\ Len(gw.matches) > 0
    /\ \E i \in 1..Len(gw.matches) : isValidDate(gw.matches[i].date)

keepAllGameweeks(gws) == gws

validGameweeks(gws) == SelectSeq(gws, hasValidMatch)

\* gw.matches.map(signature).sort().join(';')
matchSetSignature(gw) == join(sortStrings(mapSignature(gw.matches)), sSemi)

\* the loop over validGameweeks with the Set matchSetSignatures
RECURSIVE dedupe(_, _)
dedupe(gws, seen) ==
    IF gws = << >> THEN << >>
    ELSE LET sig == matchSetSignature(gws[1]) IN
         IF sig \in seen THEN dedupe(Tail(gws), seen)
         ELSE <<gws[1]>> \o dedupe(Tail(gws), seen \cup {sig})

\* slip: a later gameweek with a known signature replaces the one kept so far
RECURSIVE dedupeKeepLast(_)
dedupeKeepLast(gws) ==
    IF gws = << >> THEN << >>
    ELSE LET sig == matchSetSignature(gws[1]) IN
         IF \E i \in 2..Len(gws) : matchSetSignature(gws[i]) = sig
         THEN dedupeKeepLast(Tail(gws))
         ELSE <<gws[1]>> \o dedupeKeepLast(Tail(gws))

uniqueGameweeksKeepLast(gws) == dedupeKeepLast(gws)

uniqueGameweeks(gws) == dedupe(gws, {})

\* slip: the dates are not filtered before the sort
earliestDateOfAll(gw) ==
    LET all == sortStrings(mapDate(gw.matches))
    IN IF all = << >> \/ all[1] = << >> THEN dLate ELSE all[1]

\* matches.map(date).filter(valid).sort()[0] || '9999-12-31'
earliestDate(gw) ==
    LET valid == sortStrings(SelectSeq(mapDate(gw.matches), isValidDate))
    IN IF valid = << >> THEN dLate ELSE valid[1]

compareGameweeks(a, b) == localeCompare(earliestDate(a), earliestDate(b))

\* slip: a gameweek is placed before the gameweeks it ties with
RECURSIVE insertGameweekBeforeTies(_, _)
insertGameweekBeforeTies(x, s) ==
    IF s = << >> THEN <<x>>
    ELSE IF compareGameweeks(x, s[1]) <= 0 THEN <<x>> \o s
    ELSE <<s[1]>> \o insertGameweekBeforeTies(x, Tail(s))

\* Array.prototype.sort(compare) is stable: x goes after everything it does not precede
RECURSIVE insertGameweek(_, _)
insertGameweek(x, s) ==
    IF s = << >> THEN <<x>>
    ELSE IF compareGameweeks(x, s[1]) < 0 THEN <<x>> \o s
    ELSE <<s[1]>> \o insertGameweek(x, Tail(s))

RECURSIVE sortByEarliestDate(_)
sortByEarliestDate(gws) ==
    IF gws = << >> THEN << >>
    ELSE insertGameweek(gws[Len(gws)], sortByEarliestDate(SubSeq(gws, 1, Len(gws) - 1)))

\* slip: the navigation index is kept
renumberKeepIndex(gws) ==
    [i \in 1..Len(gws) |-> [gameweek |-> gws[i].gameweek, matches |-> gws[i].matches]]

\* uniqueGameweeks.map((gw, index) => ({gameweek: index + 1, matches: gw.matches}))
renumber(gws) ==
    [i \in 1..Len(gws) |-> [gameweek |-> i, matches |-> gws[i].matches]]

sortGameweeksByDate(gws) ==
    renumber(sortByEarliestDate(uniqueGameweeks(validGameweeks(gws))))

inputSortedInPlace(gws) == sortByEarliestDate(gws)

\* the caller's array after the call: filter, the dedupe and map build new arrays and
\* new records, and both sort calls work on such copies
inputAfterSort(gws) == gws

-----------------------------------------------------------------------------
(* verifyGameweekData *)

\* every match with the gameweek number and the index it has in its gameweek
RECURSIVE matchEntries(_)
matchEntries(gws) ==
    IF gws = << >> THEN << >>
    ELSE [i \in 1..Len(gws[1].matches) |->
            [gameweek |-> gws[1].gameweek, matchIndex |-> i - 1, match |-> gws[1].matches[i]]]
         \o matchEntries(Tail(gws))

\* the nested forEach with the Set matchSignatures: the entries found in the set
RECURSIVE scanDuplicates(_, _)
scanDuplicates(entries, seen) ==
    IF entries = << >> THEN << >>
    ELSE LET sig == signature(entries[1].match) IN
         IF sig \in seen THEN <<entries[1]>> \o scanDuplicates(Tail(entries), seen)
         ELSE scanDuplicates(Tail(entries), seen \cup {sig})

duplicateMatches(gws) == scanDuplicates(matchEntries(gws), {})

\* Math.floor(expectedMatchesPerGameweek * 0.5)
matchThreshold(expected) == expected \div 2

lowMatchGameweeks(gws, expected) ==
    SelectSeq(gws, LAMBDA gw : Len(gw.matches) > 0 /\ Len(gw.matches) < matchThreshold(expected))

hasInvalidDate(gw) == \E i \in 1..Len(gw.matches) : ~isValidDate(gw.matches[i].date)

invalidDateGameweeks(gws) == SelectSeq(gws, hasInvalidDate)

emptyGameweeks(gws) == SelectSeq(gws, LAMBDA gw : Len(gw.matches) = 0)

issues(gws, type, kind) ==
    [i \in 1..Len(gws) |-> [type |-> type, message |-> kind, gameweek |-> gws[i].gameweek]]

dataWithoutEmptyGameweeks(gws) == SelectSeq(gws, LAMBDA gw : Len(gw.matches) > 0)

\* the data of "return { data: gameweeks, report }"
returnedData(gws) == gws

\* threw: the function raised; data, report: what it returned otherwise;
\* logged: the entries appended to gameweek_verification_issues.log
verifyGameweekData(gws, expected) ==
    LET dups == duplicateMatches(gws)
        warnings == issues(lowMatchGameweeks(gws, expected), "warning", "fewer matches than expected")
                 \o issues(invalidDateGameweeks(gws), "warning", "invalid or missing dates")
                 \o issues(emptyGameweeks(gws), "warning", "empty")
    IN IF Len(dups) > 0
       THEN [threw |-> TRUE, data |-> << >>, report |-> << >>,
             logged |-> <<[type |-> "error", message |-> "duplicate matches", gameweek |-> Len(dups)]>>]
       ELSE [threw |-> FALSE, data |-> returnedData(gws), report |-> warnings, logged |-> warnings]

-----------------------------------------------------------------------------
(* withRetry *)

\* largest maxRetries passed to withRetry
MaxRetriesParam == 3
\* largest maxWaitForReconnect passed to withRetry, in poll intervals
MaxWaitPolls == 2
\* setTimeout(resolve, 5000): the pause after a failed probe
PollIntervalMs == 5000
\* the time one reachability probe takes before it resolves or rejects
ProbeDurations == {0, PollIntervalMs}

sErrDisconnected ==
    <<110,101,116,58,58,69,82,82,95,73,78,84,69,82,78,69,84,95,68,73,83,67,79,78,78,69,67,84,69,68>>
    \* "net::ERR_INTERNET_DISCONNECTED"
sErrNameNotResolved ==
    <<110,101,116,58,58,69,82,82,95,78,65,77,69,95,78,79,84,95,82,69,83,79,76,86,69,68>>
    \* "net::ERR_NAME_NOT_RESOLVED"
sTimeout ==
    <<116,105,109,101,111,117,116>>
    \* "timeout"
msgDisconnected ==
    <<110,101,116,58,58,69,82,82,95,73,78,84,69,82,78,69,84,95,68,73,83,67,79,78,78,69,67,84,69,68,32,97,116,32,47,115>>
    \* "net::ERR_INTERNET_DISCONNECTED at /s"
msgNameNotResolved ==
    <<110,101,116,58,58,69,82,82,95,78,65,77,69,95,78,79,84,95,82,69,83,79,76,86,69,68,32,97,116,32,47,115>>
    \* "net::ERR_NAME_NOT_RESOLVED at /s"
msgNavTimeout ==
    <<78,97,118,105,103,97,116,105,111,110,32,116,105,109,101,111,117,116,32,111,102,32,54,48,48,48,48,32,109,115,32,101,120,99,101,101,100,101,100>>
    \* "Navigation timeout of 60000 ms exceeded"
msgMissingData ==
    <<77,105,115,115,105,110,103,32,100,97,116,97,32,105,110,32,103,97,109,101,119,101,101,107>>
    \* "Missing data in gameweek"
msgReconnectTimeout ==
    <<78,101,116,119,111,114,107,32,114,101,99,111,110,110,101,99,116,105,111,110,32,116,105,109,101,111,117,116,32,101,120,99,101,101,100,101,100>>
    \* "Network reconnection timeout exceeded"

\* the messages of the errors the operation may throw
OperationErrors == {msgDisconnected, msgNameNotResolved, msgNavTimeout, msgMissingData}

\* String.prototype.includes
includes(s, sub) ==
    \E i \in 0..(Len(s) - Len(sub)) : SubSeq(s, i + 1, i + Len(sub)) = sub

\* slip: a timeout is not classified as a network error
isNetworkErrorNoTimeout(message) ==
    \/ includes(message, sErrDisconnected)
    \/ includes(message, sErrNameNotResolved)

isNetworkError(message) ==
    \/ includes(message, sErrDisconnected)
    \/ includes(message, sErrNameNotResolved)
    \/ includes(message, sTimeout)

\* slip: the last attempt is never made
loopConditionOffByOne(a, max) == a < max

\* for (let attempt = 1; attempt <= maxRetries; attempt++)
loopCondition(a, max) == a <= max

\* if (isNetworkError && attempt <= maxRetries)
shouldBackoff(isNetwork, a, max) == isNetwork /\ a <= max

RECURSIVE pow2(_)
pow2(n) == IF n = 0 THEN 1 ELSE 2 * pow2(n - 1)

\* Math.pow(2, attempt) * 1000
backoffMs(a) == pow2(a) * 1000

\* while (Date.now() - startTime < maxWaitForReconnect)
reconnectLoopCondition(el, maxWait) == el < maxWait

\* slip: the reconnection wait never gives up
reconnectTimedOutNever(el, maxWait) == FALSE

\* if (Date.now() - startTime >= maxWaitForReconnect)
reconnectTimedOut(el, maxWait) == el >= maxWait

NoError == [set |-> FALSE, message |-> << >>]
Pending == [kind |-> "pending", value |-> 0, message |-> << >>]
Returned(v) == [kind |-> "returned", value |-> v, message |-> << >>]
Threw(e) == [kind |-> "threw", value |-> 0, message |-> e.message]
\* throw lastError when no attempt was made: lastError is undefined
ThrewLastError(e) == IF e.set THEN Threw(e) ELSE [kind |-> "threw", value |-> 0, message |-> << >>]

InitRetry ==
    /\ rpc = "loop"
    /\ maxRetries \in 1..MaxRetriesParam
    /\ maxWaitForReconnect \in {k * PollIntervalMs : k \in 0..MaxWaitPolls}
    /\ attempt = 1
    /\ opResults = << >>
    /\ backoffs = << >>
    /\ reconnects = << >>
    /\ elapsed = 0
    /\ probes = << >>
    /\ lastError = NoError
    /\ retryOutcome = Pending

RetryIdle ==
    /\ rpc = "idle"
    /\ maxRetries = 0
    /\ maxWaitForReconnect = 0
    /\ attempt = 0
    /\ opResults = << >>
    /\ backoffs = << >>
    /\ reconnects = << >>
    /\ elapsed = 0
    /\ probes = << >>
    /\ lastError = NoError
    /\ retryOutcome = Pending

\* the loop condition fails: throw lastError after the loop
LoopExit ==
    /\ rpc = "loop"
    /\ ~loopCondition(attempt, maxRetries)
    /\ retryOutcome' = ThrewLastError(lastError)
    /\ rpc' = "done"
    /\ UNCHANGED <<maxRetries, maxWaitForReconnect, attempt, opResults, backoffs,
                   reconnects, elapsed, probes, lastError>>
    /\ UNCHANGED <<seqVars, scrapeVars, tourVars, discVars, navVars, stabVars, sessVars>>

\* returnValue = await operation(); return returnValue
OperationReturns ==
    /\ rpc = "loop"
    /\ loopCondition(attempt, maxRetries)
    /\ opResults' = Append(opResults, [kind |-> "ok", value |-> Len(opResults) + 1, message |-> << >>])
    /\ retryOutcome' = Returned(Len(opResults) + 1)
    /\ rpc' = "done"
    /\ UNCHANGED <<maxRetries, maxWaitForReconnect, attempt, backoffs,
                   reconnects, elapsed, probes, lastError>>
    /\ UNCHANGED <<seqVars, scrapeVars, tourVars, discVars, navVars, stabVars, sessVars>>

\* operation() throws: the catch block up to the reconnection loop
OperationThrows ==
    /\ rpc = "loop"
    /\ loopCondition(attempt, maxRetries)
    /\ \E message \in OperationErrors :
        LET error == [set |-> TRUE, message |-> message] IN
        /\ opResults' = Append(opResults, [kind |-> "error", value |-> 0, message |-> message])
        /\ lastError' = error
        /\ IF shouldBackoff(isNetworkError(message), attempt, maxRetries)
           THEN /\ backoffs' = Append(backoffs, [attempt |-> attempt, ms |-> backoffMs(attempt)])
                /\ elapsed' = 0
                /\ probes' = << >>
                /\ rpc' = "reconnect"
                /\ UNCHANGED <<attempt, retryOutcome>>
           ELSE IF attempt = maxRetries
           THEN /\ retryOutcome' = Threw(error)
                /\ rpc' = "done"
                /\ UNCHANGED <<attempt, backoffs, elapsed, probes>>
           ELSE /\ attempt' = attempt + 1
                /\ UNCHANGED <<rpc, retryOutcome, backoffs, elapsed, probes>>
    /\ UNCHANGED <<maxRetries, maxWaitForReconnect, reconnects>>
    /\ UNCHANGED <<seqVars, scrapeVars, tourVars, discVars, navVars, stabVars, sessVars>>

\* what follows the reconnection loop: the timeout check, then the next iteration
AfterReconnectLoop(el, probed) ==
    IF reconnectTimedOut(el, maxWaitForReconnect)
    THEN /\ reconnects' = Append(reconnects,
                [attempt |-> attempt, probeFailed |-> "fail" \in Range(probed),
                 probeSucceeded |-> "ok" \in Range(probed), waited |-> el,
                 result |-> "timeout"])
         /\ retryOutcome' = [kind |-> "threw", value |-> 0, message |-> msgReconnectTimeout]
         /\ rpc' = "done"
         /\ UNCHANGED attempt
    ELSE /\ reconnects' = Append(reconnects,
                [attempt |-> attempt, probeFailed |-> "fail" \in Range(probed),
                 probeSucceeded |-> "ok" \in Range(probed), waited |-> el,
                 result |-> "reconnected"])
         /\ attempt' = attempt + 1
         /\ rpc' = "loop"
         /\ UNCHANGED retryOutcome

\* the probe resolves: break, then the timeout check
ProbeSucceeds ==
    /\ rpc = "reconnect"
    /\ reconnectLoopCondition(elapsed, maxWaitForReconnect)
    /\ \E d \in ProbeDurations :
        /\ elapsed' = elapsed + d
        /\ probes' = Append(probes, "ok")
        /\ AfterReconnectLoop(elapsed + d, Append(probes, "ok"))
    /\ UNCHANGED <<maxRetries, maxWaitForReconnect, opResults, backoffs, lastError>>
    /\ UNCHANGED <<seqVars, scrapeVars, tourVars, discVars, navVars, stabVars, sessVars>>

\* the probe rejects: sleep one poll interval and test the loop condition again
ProbeFails ==
    /\ rpc = "reconnect"
    /\ reconnectLoopCondition(elapsed, maxWaitForReconnect)
    /\ \E d \in ProbeDurations :
        /\ elapsed' = elapsed + d + PollIntervalMs
        /\ probes' = Append(probes, "fail")
    /\ UNCHANGED <<rpc, maxRetries, maxWaitForReconnect, attempt, opResults, backoffs,
                   reconnects, lastError, retryOutcome>>
    /\ UNCHANGED <<seqVars, scrapeVars, tourVars, discVars, navVars, stabVars, sessVars>>

\* the loop condition fails: the wait is over without a break
ReconnectLoopExit ==
    /\ rpc = "reconnect"
    /\ ~reconnectLoopCondition(elapsed, maxWaitForReconnect)
    /\ AfterReconnectLoop(elapsed, probes)
    /\ UNCHANGED <<maxRetries, maxWaitForReconnect, opResults, backoffs, elapsed, probes,
                   lastError>>
    /\ UNCHANGED <<seqVars, scrapeVars, tourVars, discVars, navVars, stabVars, sessVars>>

-----------------------------------------------------------------------------
(* The Sequencer and the Verifier called on arbitrary gameweek sequences *)

\* expectedMatchesPerGameweek handed to verifyGameweekData
ExpectedChoices == {0, 4}

SeqIdle ==
    /\ fpc = "idle"
    /\ gameweeks = << >>
    /\ sortedOnce = << >>
    /\ sortedTwice = << >>
    /\ verdict = [threw |-> FALSE, data |-> << >>, report |-> << >>, logged |-> << >>]

InitSeq ==
    /\ fpc = "input"
    /\ \E shape \in gameweekShapes(MaxGameweeks, MaxTotalMatches) :
        gameweeks = gameweeksOf(shape)
    /\ sortedOnce = << >>
    /\ sortedTwice = << >>
    /\ verdict = [threw |-> FALSE, data |-> << >>, report |-> << >>, logged |-> << >>]

CallSort ==
    /\ fpc = "input"
    /\ sortedOnce' = sortGameweeksByDate(gameweeks)
    /\ gameweeks' = inputAfterSort(gameweeks)
    /\ fpc' = "sorted"
    /\ UNCHANGED <<sortedTwice, verdict>>
    /\ UNCHANGED <<retryVars, scrapeVars, tourVars, discVars, navVars, stabVars, sessVars>>

CallSortAgain ==
    /\ fpc = "sorted"
    /\ sortedTwice' = sortGameweeksByDate(sortedOnce)
    /\ fpc' = "resorted"
    /\ UNCHANGED <<gameweeks, sortedOnce, verdict>>
    /\ UNCHANGED <<retryVars, scrapeVars, tourVars, discVars, navVars, stabVars, sessVars>>

CallVerify ==
    /\ fpc = "resorted"
    /\ \E expected \in ExpectedChoices :
        verdict' = verifyGameweekData(gameweeks, expected)
    /\ fpc' = "verified"
    /\ UNCHANGED <<gameweeks, sortedOnce, sortedTwice>>
    /\ UNCHANGED <<retryVars, scrapeVars, tourVars, discVars, navVars, stabVars, sessVars>>

-----------------------------------------------------------------------------
(* scrapeGameweeks *)

\* largest #maxweek value a season page shows
MaxWeeks == 2
\* most match rows one gameweek page shows
MaxRows == 2
\* const maxRetries = 3 of the gameweek loop
GameweekMaxRetries == 3

sHttps == <<104, 116, 116, 112, 115, 58>>                                 \* "https:"
sSlash == <<47>>                                                           \* "/"
sSite == <<104, 116, 116, 112, 115, 58, 47, 47, 115>>                      \* "https://s"
hrefProtocolRelative == <<47, 47, 115, 47, 49>>                            \* "//s/1"
hrefAbsolute == <<104, 116, 116, 112, 115, 58, 47, 47, 115, 47, 51>>       \* "https://s/3"
msgBaseUrlNotDefined ==
    <<98,97,115,101,85,114,108,32,105,115,32,110,111,116,32,100,101,102,105,110,101,100>>
    \* "baseUrl is not defined"

\* s.startsWith(prefix)
startsWith(s, prefix) == Len(s) >= Len(prefix) /\ SubSeq(s, 1, Len(prefix)) = prefix

\* a match row of '#week_container': the date heading before it, its cells and the
\* href of its anchor
Row(d, t, h, a, sc, href) ==
    [date |-> d, time |-> t, homeTeam |-> h, awayTeam |-> a, score |-> sc, href |-> href]

rowA  == Row(d0815, s1500, sA, sB, s21, hrefProtocolRelative)
\* the same fixture as rowA, shown with another kick-off time
rowA2 == Row(d0815, s1800, sA, sB, s21, hrefProtocolRelative)
rowB  == Row(d0801, s1500, sAbarB, sC, sUnplayed, sUrl2)
\* other teams, the same signature string as rowB
rowB2 == Row(d0801, s1800, sA, sBbarC, sUnplayed, hrefAbsolute)
rowC  == Row(d0725, sTBD, sB, sA, s10, sUrl4)

\* the match rows a gameweek page may show, each with every required field
PageRows == {rowA, rowA2, rowB, rowB2, rowC}

\* the rows of one gameweek page
PageContents == UNION {seqsOfLen(PageRows, k) : k \in 0..MaxRows}

\* the global variable baseUrl of the page: "baseUrl" inside the function that
\* page.evaluate runs in the page is not the parameter of scrapeGameweeks
NoGlobal == [defined |-> FALSE, value |-> << >>]
PageGlobals == {NoGlobal, [defined |-> TRUE, value |-> sSite]}

\* statsUrl.startsWith('//') ? `https:${statsUrl}`
\*   : statsUrl.startsWith('/') ? `${baseUrl}${statsUrl}` : statsUrl
\* where reading baseUrl is a ReferenceError when the page defines no such global
statsUrlOf(href, global) ==
    IF startsWith(href, sSlash \o sSlash) THEN [threw |-> FALSE, value |-> sHttps \o href]
    ELSE IF startsWith(href, sSlash)
    THEN IF global.defined
         THEN [threw |-> FALSE, value |-> global.value \o href]
         ELSE [threw |-> TRUE, value |-> << >>]
    ELSE [threw |-> FALSE, value |-> href]

\* results.push({ date: currentDate, time, homeTeam, awayTeam, score, statsUrl: ... })
extractRow(row, global) ==
    Match(row.date, row.time, row.homeTeam, row.awayTeam, row.score,
          statsUrlOf(row.href, global).value)

\* the function of page.evaluate throws on the first row whose statsUrl cannot be built
extractionThrows(rows, global) ==
    \E k \in 1..Len(rows) : statsUrlOf(rows[k].href, global).threw

\* what page.evaluate returns when no row throws
extractRows(rows, global) == [k \in 1..Len(rows) |-> extractRow(rows[k], global)]

\* options.expectedMatchesPerGameweek (0: not supplied)
ExpectedOptions == {0, 3, 4}

\* Math.floor((maxGameweeks + 2) / 2 / 2)
calculatedMatchesPerGameweek(max) == (max + 2) \div 4

\* options.expectedMatchesPerGameweek || calculatedMatchesPerGameweek
expectedMatches(option, max) ==
    IF option # 0 THEN option ELSE calculatedMatchesPerGameweek(max)

checkDuplicatesFindsNone(matches, sigs) ==
    [newMatches |-> matches, duplicates |-> << >>,
     signatures |-> sigs \cup Range(mapSignature(matches))]

\* matches.forEach(...) over the running signature set: a signature is added to the
\* set the moment it is first met, whether or not the gameweek is accepted later
RECURSIVE checkDuplicates(_, _)
checkDuplicates(matches, sigs) ==
    IF matches = << >>
    THEN [newMatches |-> << >>, duplicates |-> << >>, signatures |-> sigs]
    ELSE LET sig == signature(matches[1]) IN
         IF sig \in sigs
         THEN LET r == checkDuplicates(Tail(matches), sigs)
              IN [r EXCEPT !.duplicates = <<matches[1]>> \o @]
         ELSE LET r == checkDuplicates(Tail(matches), sigs \cup {sig})
              IN [r EXCEPT !.newMatches = <<matches[1]>> \o @]

\* newMatches.length < Math.floor(finalExpectedMatches * 0.5)
isSparse(count, expected) == count < expected \div 2

NotReturned == [kind |-> "none", hasErrorOccurred |-> FALSE, result |-> << >>]
OutcomeWithoutFlag(flag, result) ==
    [kind |-> "outcome", hasErrorOccurred |-> FALSE, result |-> result]
\* return { hasErrorOccurred, result }
Outcome(flag, result) == [kind |-> "outcome", hasErrorOccurred |-> flag, result |-> result]
\* return []: an array, which has neither a hasErrorOccurred nor a result property
EmptyArray == [kind |-> "array", hasErrorOccurred |-> FALSE, result |-> << >>]

NoAttempt == [ending |-> "none", count |-> 0, week |-> 0, label |-> 0, error |-> << >>]

ScrapeIdle ==
    /\ pc = "idle"
    /\ maxGameweeks = 0
    /\ finalExpectedMatches = 0
    /\ week = 0
    /\ retryCount = 0
    /\ allMatches = << >>
    /\ matchSignatures = {}
    /\ errorSignal = FALSE
    /\ returned = NotReturned
    /\ weekAttempts = << >>
    /\ lastAttempt = NoAttempt

InitScrape ==
    /\ pc = "start"
    /\ maxGameweeks = 0
    /\ finalExpectedMatches = 0
    /\ week = 0
    /\ retryCount = 0
    /\ allMatches = << >>
    /\ matchSignatures = {}
    /\ errorSignal = FALSE
    /\ returned = NotReturned
    /\ weekAttempts = << >>
    /\ lastAttempt = NoAttempt

CaughtReturnKeepsFlag ==
    /\ returned' = Outcome(errorSignal, << >>)
    /\ pc' = "done"

\* the outer catch: return { hasErrorOccurred: true, result: [] }
CaughtReturn ==
    /\ returned' = Outcome(TRUE, << >>)
    /\ pc' = "done"

\* withRetry(page.goto) throws
NavigateSeasonFails ==
    /\ pc = "start"
    /\ CaughtReturn
    /\ UNCHANGED <<maxGameweeks, finalExpectedMatches, week, retryCount, allMatches,
                   matchSignatures, errorSignal>>
    /\ UNCHANGED <<weekAttempts, lastAttempt>>
    /\ UNCHANGED <<seqVars, retryVars, tourVars, discVars, navVars, stabVars, sessVars>>

\* the page shows no played result: log a warning and return []
SeasonHasNoResults ==
    /\ pc = "start"
    /\ returned' = EmptyArray
    /\ pc' = "done"
    /\ UNCHANGED <<maxGameweeks, finalExpectedMatches, week, retryCount, allMatches,
                   matchSignatures, errorSignal>>
    /\ UNCHANGED <<weekAttempts, lastAttempt>>
    /\ UNCHANGED <<seqVars, retryVars, tourVars, discVars, navVars, stabVars, sessVars>>

\* the page shows results: read #maxweek and work out the expected matches per gameweek
ReadSeason ==
    /\ pc = "start"
    /\ \E max \in 1..MaxWeeks, option \in ExpectedOptions :
        /\ maxGameweeks' = max
        /\ finalExpectedMatches' = expectedMatches(option, max)
        /\ weekAttempts' = [w \in 1..max |-> 0]
    /\ pc' = "gameweek1"
    /\ UNCHANGED <<week, retryCount, allMatches, matchSignatures, errorSignal, returned,
                   lastAttempt>>
    /\ UNCHANGED <<seqVars, retryVars, tourVars, discVars, navVars, stabVars, sessVars>>

\* withRetry(navigate to Gameweek 1) returns: the for loop starts with week = 1
NavigateGameweek1 ==
    /\ pc = "gameweek1"
    /\ week' = 1
    /\ retryCount' = 0
    /\ pc' = "gameweek"
    /\ UNCHANGED <<maxGameweeks, finalExpectedMatches, allMatches, matchSignatures,
                   errorSignal, returned>>
    /\ UNCHANGED <<weekAttempts, lastAttempt>>
    /\ UNCHANGED <<seqVars, retryVars, tourVars, discVars, navVars, stabVars, sessVars>>

\* withRetry(navigate to Gameweek 1) throws
NavigateGameweek1Fails ==
    /\ pc = "gameweek1"
    /\ CaughtReturn
    /\ UNCHANGED <<maxGameweeks, finalExpectedMatches, week, retryCount, allMatches,
                   matchSignatures, errorSignal>>
    /\ UNCHANGED <<weekAttempts, lastAttempt>>
    /\ UNCHANGED <<seqVars, retryVars, tourVars, discVars, navVars, stabVars, sessVars>>

\* history: one more attempt at the current gameweek index
logWeekAttempt(ending, count, label, error) ==
    /\ weekAttempts' = [weekAttempts EXCEPT ![week] = @ + 1]
    /\ lastAttempt' = [ending |-> ending, count |-> count, week |-> week,
                       label |-> label, error |-> error]

msgWaitTimeout ==
    <<87,97,105,116,105,110,103,32,102,97,105,108,101,100,58,32,54,48,48,48,48,109,115,32,101,120,99,101,101,100,101,100>>
    \* "Waiting failed: 60000ms exceeded"

msgSelectorTimeout ==
    <<87,97,105,116,105,110,103,32,102,111,114,32,115,101,108,101,99,116,111,114,32,96,35,119,
      101,101,107,95,99,111,110,116,97,105,110,101,114,32,46,103,115,97,45,99,45,109,97,116,99,
      104,45,114,111,119,96,32,102,97,105,108,101,100,58,32>> \o msgWaitTimeout
    \* "Waiting for selector `#week_container .gsa-c-match-row` failed: Waiting failed: 60000ms exceeded"

\* the gameweek number displayed in #week_sel when the navigation wait ends (0: none)
DisplayedLabels == 0..MaxWeeks

labelConfirmedAlways(label, w) == TRUE

\* the predicate of page.waitForFunction: parseInt(text.match(/\d+/)[0], 10) === w
labelConfirmed(label, w) == label = w

\* the network errors an attempt can throw, whatever the label: withRetry throws the
\* last error of the operation when the connection came back after every failure and
\* the calls are used up, or "Network reconnection timeout exceeded" when it did not
\* come back; page.evaluate of the extraction, outside withRetry, throws its own error
networkErrors == {msgDisconnected, msgNameNotResolved, msgReconnectTimeout}

\* what an attempt can throw outside the function of page.evaluate: the navigation
\* wait times out while the label is not w; with the label confirmed, no row appears
\* (page.waitForSelector), the rows do not stabilize (page.waitForFunction), or the
\* extraction finds a row with a missing field; at either point a network error
attemptErrors(label, w) ==
    IF labelConfirmed(label, w)
    THEN {msgSelectorTimeout, msgWaitTimeout, msgMissingData} \cup networkErrors
    ELSE {msgWaitTimeout} \cup networkErrors

retriesLeftOffByOne(count) == count <= GameweekMaxRetries

\* while (retryCount < maxRetries && !gameweekSuccess), for an attempt that did not
\* set gameweekSuccess
retriesLeft(count) == count < GameweekMaxRetries

\* after an attempt that did not accept the gameweek, with count the new retryCount:
\* the while condition, then "if (!gameweekSuccess) { errorSignal = true; continue }"
AfterRejectedAttempt(count) ==
    IF retriesLeft(count)
    THEN /\ retryCount' = count
         /\ UNCHANGED week
    ELSE /\ retryCount' = 0
         /\ week' = week + 1

\* an attempt in which navigation, the stabilization wait or the extraction throws
\* (a row with a missing field, or a row whose statsUrl cannot be built): the inner catch
AttemptThrows ==
    /\ pc = "gameweek"
    /\ week <= maxGameweeks
    /\ errorSignal' = TRUE
    /\ AfterRejectedAttempt(retryCount + 1)
    /\ \E label \in DisplayedLabels :
        \/ \E error \in attemptErrors(label, week) :
              logWeekAttempt("threw", 0, label, error)
        \/ /\ labelConfirmed(label, week)
           /\ \E rows \in PageContents, global \in PageGlobals :
                extractionThrows(rows, global)
           /\ logWeekAttempt("threw", 0, label, msgBaseUrlNotDefined)
    /\ UNCHANGED <<pc, maxGameweeks, finalExpectedMatches, allMatches, matchSignatures, returned>>
    /\ UNCHANGED <<seqVars, retryVars, tourVars, discVars, navVars, stabVars, sessVars>>

\* an attempt in which the navigation wait confirms the label and the extraction
\* returns the matches of the rows of the page
AttemptExtracts ==
    /\ pc = "gameweek"
    /\ week <= maxGameweeks
    /\ \E rows \in PageContents, global \in PageGlobals, label \in DisplayedLabels :
        LET r == checkDuplicates(extractRows(rows, global), matchSignatures) IN
        /\ labelConfirmed(label, week)
        /\ ~extractionThrows(rows, global)
        /\ matchSignatures' = r.signatures
        /\ IF Len(r.duplicates) > 0
           THEN /\ errorSignal' = TRUE
                /\ AfterRejectedAttempt(retryCount + 1)
                /\ logWeekAttempt("duplicate", Len(r.newMatches), label, << >>)
                /\ UNCHANGED allMatches
           ELSE IF isSparse(Len(r.newMatches), finalExpectedMatches)
           THEN /\ errorSignal' = TRUE
                /\ AfterRejectedAttempt(retryCount + 1)
                /\ logWeekAttempt("sparse", Len(r.newMatches), label, << >>)
                /\ UNCHANGED allMatches
           ELSE /\ allMatches' = Append(allMatches, [gameweek |-> week, matches |-> r.newMatches])
                /\ week' = week + 1
                /\ retryCount' = 0
                /\ logWeekAttempt("accepted", Len(r.newMatches), label, << >>)
                /\ UNCHANGED errorSignal
    /\ UNCHANGED <<pc, maxGameweeks, finalExpectedMatches, returned>>
    /\ UNCHANGED <<seqVars, retryVars, tourVars, discVars, navVars, stabVars, sessVars>>

\* after the for loop: verifyGameweekData, sortGameweeksByDate, save, return;
\* an error raised by the Verifier lands in the outer catch
VerifySortReturn ==
    /\ pc = "gameweek"
    /\ week > maxGameweeks
    /\ LET v == verifyGameweekData(allMatches, finalExpectedMatches) IN
       IF v.threw
       THEN CaughtReturn
       ELSE /\ returned' = Outcome(errorSignal, sortGameweeksByDate(v.data))
            /\ pc' = "done"
    /\ UNCHANGED <<maxGameweeks, finalExpectedMatches, week, retryCount, allMatches,
                   matchSignatures, errorSignal>>
    /\ UNCHANGED <<weekAttempts, lastAttempt>>
    /\ UNCHANGED <<seqVars, retryVars, tourVars, discVars, navVars, stabVars, sessVars>>

-----------------------------------------------------------------------------
(* scrapeLeagueStanding (src/lib/scrape_standing.js) *)

\* most rows in a standings table
MaxStandingRows == 2

s0    == <<48>>                         \* "0"
s1    == <<49>>                         \* "1"
s3    == <<51>>                         \* "3"
sPlus3 == <<43, 51>>                    \* "+3"
sDash == <<45>>                         \* "-"

\* a JavaScript number: NaN or an integer
NaN == [nan |-> TRUE, n |-> 0]
Num(n) == [nan |-> FALSE, n |-> n]

\* the value of the longest prefix of digits of s, with the number of its digits
RECURSIVE digitPrefix(_, _, _)
digitPrefix(s, len, value) ==
    IF s = << >> \/ ~isDigit(Head(s)) THEN [len |-> len, value |-> value]
    ELSE digitPrefix(Tail(s), len + 1, 10 * value + (Head(s) - 48))

\* parseInt(s, 10) of a trimmed text: an optional sign ("+" or "-"), then digits; NaN
\* without a digit
parseInt10(s) ==
    LET signed == s # << >> /\ Head(s) \in {43, 45}
        negative == s # << >> /\ Head(s) = 45
        body == IF signed THEN Tail(s) ELSE s
        p == digitPrefix(body, 0, 0)
    IN IF p.len = 0 THEN NaN
       ELSE Num(IF negative THEN 0 - p.value ELSE p.value)

\* textContent.trim() || '0'
textOrZero(text) == IF text = << >> THEN s0 ELSE text

\* the row pushed for a .player_row; of its eight counts only matchPlayed is kept
standingRow(row) ==
    [rank |-> row.rank, team |-> row.team,
     matchPlayed |-> parseInt10(textOrZero(row.played))]

\* rows.forEach(row => { ... if (team && rank) results.push(...) })
RECURSIVE extractStandings(_)
extractStandings(rows) ==
    IF rows = << >> THEN << >>
    ELSE (IF Head(rows).team # << >> /\ Head(rows).rank # << >>
          THEN <<standingRow(Head(rows))>> ELSE << >>)
         \o extractStandings(Tail(rows))

\* Number.isNaN(matchPlayed) ? 0 : Boolean(matchPlayed)
hasPlayed(x) == IF x.nan THEN FALSE ELSE x.n # 0

isValidStandingEvery(standings) ==
    \A i \in 1..Len(standings) : hasPlayed(standings[i].matchPlayed)

\* standings.some(s => ...)
isValidStanding(standings) ==
    \E i \in 1..Len(standings) : hasPlayed(standings[i].matchPlayed)

StandingReturns(list) == [threw |-> FALSE, standings |-> list]
StandingThrows == [threw |-> TRUE, standings |-> << >>]

\* page.failure: "none"; "wait": the stabilization wait throws; "snapshot": it throws
\* and so does the page.evaluate of the catch block
scrapeLeagueStanding(page) ==
    IF ~page.hasResults THEN StandingReturns(<< >>)
    ELSE IF page.failure = "snapshot" THEN StandingThrows
    ELSE IF page.failure = "wait" THEN StandingReturns(<< >>)
    ELSE LET standings == extractStandings(page.rows) IN
         IF Len(standings) = 0 THEN StandingReturns(<< >>)
         ELSE IF isValidStanding(standings) THEN StandingReturns(standings)
         ELSE StandingReturns(<< >>)

\* the trimmed texts of the cells of a .player_row
RowTexts ==
    [rank : {<< >>, s1}, team : {<< >>, sA}, played : {<< >>, s0, s3, sDash, sPlus3}]

StandingPages ==
    [hasResults : BOOLEAN,
     failure : {"none", "wait", "snapshot"},
     rows : UNION {seqsOfLen(RowTexts, k) : k \in 0..MaxStandingRows}]

NoPage == [hasResults |-> FALSE, failure |-> "none", rows |-> << >>]

StandingIdle ==
    /\ spc = "idle"
    /\ standingPage = NoPage
    /\ standingResult = StandingReturns(<< >>)

InitStanding ==
    /\ spc = "input"
    /\ standingPage \in StandingPages
    /\ standingResult = StandingReturns(<< >>)

CallScrapeLeagueStanding ==
    /\ spc = "input"
    /\ standingResult' = scrapeLeagueStanding(standingPage)
    /\ spc' = "scraped"
    /\ UNCHANGED <<standingPage, dpc, leaguesOnly, seasonOptions, targetSeasons, cursor,
                   validSeasons, checkedSeasons, discovered>>
    /\ UNCHANGED <<seqVars, retryVars, scrapeVars, tourVars, navVars, stabVars, sessVars>>

-----------------------------------------------------------------------------
(* scrapeSeasonsLinks (src/lib/scrape_season_links.js) *)

\* most options in the season dropdown
MaxOptions == 2

s2018 == <<50,48,49,56,47,50,48,49,57>>     \* "2018/2019"
s2019 == <<50,48,49,57,47,50,48,50,48>>     \* "2019/2020"
s2021 == <<50,48,50,49,47,50,48,50,50>>     \* "2021/2022"
s2025 == <<50,48,50,53,47,50,48,50,54>>     \* "2025/2026"
s2026 == <<50,48,50,54,47,50,48,50,55>>     \* "2026/2027"
s2030 == <<50,48,51,48,47,50,48,51,49>>     \* "2030/2031"

SeasonLabels == {s2018, s2019, s2021, s2025, s2026, s2030}

\* the options of the dropdown: { season: textContent.trim(), url: value }; one option
\* has no value
DropdownOptions ==
    {[season |-> l, url |-> <<47>> \o l] : l \in SeasonLabels}
        \cup {[season |-> s2021, url |-> << >>]}

\* the text from position i matches 2019\/2020
matchesFirstAlternative(t, i) == SubSeq(t, i, i + 8) = s2019

\* the text from position i matches 20[2-5][0-6]\/20[2-6][0-7]
matchesSecondAlternative(t, i) ==
    /\ t[i] = 50 /\ t[i + 1] = 48 /\ t[i + 2] \in 50..53 /\ t[i + 3] \in 48..54
    /\ t[i + 4] = 47
    /\ t[i + 5] = 50 /\ t[i + 6] = 48 /\ t[i + 7] \in 50..54 /\ t[i + 8] \in 48..55

\* option.season.match(/2019\/2020|20[2-5][0-6]\/20[2-6][0-7]/): a search, not anchored
isTargetSeason(option) ==
    \E i \in 1..(Len(option.season) - 8) :
        matchesFirstAlternative(option.season, i) \/ matchesSecondAlternative(option.season, i)

\* .filter(option => option.url)
optionsWithUrl(options) == SelectSeq(options, LAMBDA o : o.url # << >>)

filterTargetSeasons(options) == SelectSeq(options, isTargetSeason)

acceptsEverySeason(standings) == TRUE

\* if (standings.length)
acceptsSeason(standings) == Len(standings) > 0

\* { leagueStanding: standings, ...season }
validSeason(standings, option) ==
    [leagueStanding |-> standings, season |-> option.season, url |-> option.url]

\* the season pages a candidate can show: a table with played matches, a table whose
\* rows all have matchPlayed 0, no played result, no row, and a page on which both the
\* wait and the snapshot of the catch block throw
playedRow == [rank |-> s1, team |-> sA, played |-> s3]
unplayedRow == [rank |-> s1, team |-> sA, played |-> s0]

CandidatePages ==
    {[hasResults |-> TRUE, failure |-> "none", rows |-> <<playedRow, unplayedRow>>],
     [hasResults |-> TRUE, failure |-> "none", rows |-> <<unplayedRow, unplayedRow>>],
     [hasResults |-> FALSE, failure |-> "none", rows |-> <<playedRow>>],
     [hasResults |-> TRUE, failure |-> "none", rows |-> << >>],
     [hasResults |-> TRUE, failure |-> "snapshot", rows |-> <<playedRow>>]}

NotDiscovered == [kind |-> "none", links |-> << >>]
\* return validSeasons / return []
DiscoveredList(links) == [kind |-> "list", links |-> links]
\* return;
DiscoveredUndefined == [kind |-> "undefined", links |-> << >>]
\* the call rejects
DiscoveryThrew == [kind |-> "threw", links |-> << >>]

DiscoveryIdle ==
    /\ dpc = "idle"
    /\ leaguesOnly = FALSE
    /\ seasonOptions = << >>
    /\ targetSeasons = << >>
    /\ cursor = 0
    /\ validSeasons = << >>
    /\ checkedSeasons = << >>
    /\ discovered = NotDiscovered

InitDiscovery ==
    /\ dpc = "start"
    /\ leaguesOnly \in BOOLEAN
    /\ seasonOptions = << >>
    /\ targetSeasons = << >>
    /\ cursor = 0
    /\ validSeasons = << >>
    /\ checkedSeasons = << >>
    /\ discovered = NotDiscovered

DiscIdle == StandingIdle /\ DiscoveryIdle

\* the navigation to the landing page or the wait for the dropdown throws: the outer
\* catch returns []
LandingFails ==
    /\ dpc = "start"
    /\ discovered' = DiscoveredList(<< >>)
    /\ dpc' = "done"
    /\ UNCHANGED <<leaguesOnly, seasonOptions, targetSeasons, cursor, validSeasons,
                   checkedSeasons>>
    /\ UNCHANGED <<spc, standingPage, standingResult>>
    /\ UNCHANGED <<seqVars, retryVars, scrapeVars, tourVars, navVars, stabVars, sessVars>>

\* the navigation to the landing page or the wait for the dropdown throws, and in the
\* outer catch the page.evaluate of the HTML snapshot throws too: the call rejects,
\* after the finally has closed the browser
LandingFailsSnapshotThrows ==
    /\ dpc = "start"
    /\ discovered' = DiscoveryThrew
    /\ dpc' = "done"
    /\ UNCHANGED <<leaguesOnly, seasonOptions, targetSeasons, cursor, validSeasons,
                   checkedSeasons>>
    /\ UNCHANGED <<spc, standingPage, standingResult>>
    /\ UNCHANGED <<seqVars, retryVars, scrapeVars, tourVars, navVars, stabVars, sessVars>>

\* leaguesOnly and isLeagueCompetition is false (no "Gameweek N" in #week_sel):
\* log a warning and return
LandingIsNotLeague ==
    /\ dpc = "start"
    /\ leaguesOnly
    /\ discovered' = DiscoveredUndefined
    /\ dpc' = "done"
    /\ UNCHANGED <<leaguesOnly, seasonOptions, targetSeasons, cursor, validSeasons,
                   checkedSeasons>>
    /\ UNCHANGED <<spc, standingPage, standingResult>>
    /\ UNCHANGED <<seqVars, retryVars, scrapeVars, tourVars, navVars, stabVars, sessVars>>

\* the league check passes or is not asked for: read the options of the dropdown,
\* return [] when none has a value, else filter them
ReadSeasonOptions ==
    /\ dpc = "start"
    /\ \E options \in UNION {seqsOfLen(DropdownOptions, k) : k \in 0..MaxOptions} :
        /\ seasonOptions' = optionsWithUrl(options)
        /\ IF Len(optionsWithUrl(options)) = 0
           THEN /\ discovered' = DiscoveredList(<< >>)
                /\ dpc' = "done"
                /\ UNCHANGED <<targetSeasons, cursor>>
           ELSE /\ targetSeasons' = filterTargetSeasons(optionsWithUrl(options))
                /\ cursor' = 1
                /\ dpc' = "check"
                /\ UNCHANGED discovered
    /\ UNCHANGED <<leaguesOnly, validSeasons, checkedSeasons>>
    /\ UNCHANGED <<spc, standingPage, standingResult>>
    /\ UNCHANGED <<seqVars, retryVars, scrapeVars, tourVars, navVars, stabVars, sessVars>>

\* history: the check of the season at the cursor, the page it showed and whether the
\* navigation to it failed
logCheck(page, navigationFailed) ==
    checkedSeasons' = Append(checkedSeasons,
        [season |-> targetSeasons[cursor].season, url |-> targetSeasons[cursor].url,
         page |-> page, navigationFailed |-> navigationFailed])

\* the navigation to the season page throws: the catch of the loop body logs an error
CheckSeasonNavigationFails ==
    /\ dpc = "check"
    /\ cursor <= Len(targetSeasons)
    /\ logCheck(NoPage, TRUE)
    /\ cursor' = cursor + 1
    /\ UNCHANGED <<dpc, leaguesOnly, seasonOptions, targetSeasons, validSeasons, discovered>>
    /\ UNCHANGED <<spc, standingPage, standingResult>>
    /\ UNCHANGED <<seqVars, retryVars, scrapeVars, tourVars, navVars, stabVars, sessVars>>

\* the season page is reached: scrapeLeagueStanding, then accept the season, log a
\* warning, or (when it throws) log an error
CheckSeason ==
    /\ dpc = "check"
    /\ cursor <= Len(targetSeasons)
    /\ \E page \in CandidatePages :
        LET r == scrapeLeagueStanding(page) IN
        /\ logCheck(page, FALSE)
        /\ validSeasons' = IF ~r.threw /\ acceptsSeason(r.standings)
                           THEN Append(validSeasons,
                                       validSeason(r.standings, targetSeasons[cursor]))
                           ELSE validSeasons
    /\ cursor' = cursor + 1
    /\ UNCHANGED <<dpc, leaguesOnly, seasonOptions, targetSeasons, discovered>>
    /\ UNCHANGED <<spc, standingPage, standingResult>>
    /\ UNCHANGED <<seqVars, retryVars, scrapeVars, tourVars, navVars, stabVars, sessVars>>

\* after the loop: save seasons_list.json and return validSeasons
ReturnValidSeasons ==
    /\ dpc = "check"
    /\ cursor > Len(targetSeasons)
    /\ discovered' = DiscoveredList(validSeasons)
    /\ dpc' = "done"
    /\ UNCHANGED <<leaguesOnly, seasonOptions, targetSeasons, cursor, validSeasons,
                   checkedSeasons>>
    /\ UNCHANGED <<spc, standingPage, standingResult>>
    /\ UNCHANGED <<seqVars, retryVars, scrapeVars, tourVars, navVars, stabVars, sessVars>>

-----------------------------------------------------------------------------
(* scrapeTournament (src/lib/league_scraper.js) *)

\* most seasons Season Discovery returns
MaxSeasons == 3
\* largest options.maxRescrapeCount passed by the caller (0: absent or 0)
MaxRescrapeOption == 2
\* the default of "options.maxRescrapeCount || 3"
DefaultMaxRescrapeCount == 3

rescrapeCountAsGiven(option) == option

\* const maxRescrapeCount = options.maxRescrapeCount || 3
effectiveMaxRescrapeCount(option) ==
    IF option # 0 THEN option ELSE DefaultMaxRescrapeCount

\* "2020/2021", "2021/2022", ...: labels that pass the season filter of Season Discovery
seasonLabel(k) == <<50, 48, 50, 48 + k, 47, 50, 48, 50, 49 + k>>

\* a season link { leagueStanding, season, url }; of a standing row only rank, team
\* and points are kept
seasonLink(k) ==
    [season |-> seasonLabel(k),
     url |-> <<47, 48 + k>>,
     leagueStanding |-> <<[rank |-> <<49>>, team |-> sA, points |-> k]>>]

\* the gameweek sequences a crawl attempt returns in this component
ScrapeResults == {<< >>, <<[gameweek |-> 1, matches |-> <<matchA>>]>>}

\* what one call of scrapeGameweeks returns
ScrapeReturns ==
    {Outcome(flag, r) : flag \in BOOLEAN, r \in ScrapeResults} \cup {EmptyArray}

\* { season, gameweeks: g.result, leagueStanding }; g.result is undefined when g is
\* an array
seasonRecord(link, g) ==
    [shape |-> "record",
     season |-> link.season,
     hasGameweeks |-> g.kind = "outcome",
     gameweeks |-> g.result,
     leagueStanding |-> link.leagueStanding]

\* gameweeks.result pushed as it is: an array of gameweeks, no season and no
\* leagueStanding property
resultOnly(g) ==
    [shape |-> "array",
     season |-> << >>,
     hasGameweeks |-> TRUE,
     gameweeks |-> g.result,
     leagueStanding |-> << >>]

erroneousEntryOfLast(first, last) == resultOnly(last)

\* !isErrorResolved && erroneousData.push(gameweeks.result): "gameweeks" is the first
\* attempt, "gw" of the last rescrape is out of scope
erroneousEntry(first, last) == resultOnly(first)

flaggedOrArray(g) == g.hasErrorOccurred \/ g.kind = "array"

\* the truthiness of g.hasErrorOccurred (undefined, so falsy, when g is an array)
flagged(g) == g.hasErrorOccurred

rescrapeLoopConditionOffByOne(j, max) == j <= max

\* for (let j = 0; j < maxRescrapeCount; j++)
rescrapeLoopCondition(j, max) == j < max

\* if (j < maxRescrapeCount) break
breakAfterRepair(j, max) == j < max

persistAlways(bucket) == TRUE

\* if (results.length) / if (erroneousData.length) / if (repairedData.length)
shouldPersist(bucket) == Len(bucket) > 0

\* enrichedResults reads gameweeks.length of every entry: a TypeError when an entry
\* has no gameweeks
enrichmentThrows(bucket) == \E k \in 1..Len(bucket) : ~bucket[k].hasGameweeks

\* what enrichedResults stores as the stats of a match: the value scrapeMatchStats
\* returned, or null when it threw
StatsOutcomes == {"returned", "null"}

\* results[i].gameweeks[j].matches[k].stats = stats
withStats(m, stats) ==
    [date |-> m.date, time |-> m.time, homeTeam |-> m.homeTeam, awayTeam |-> m.awayTeam,
     score |-> m.score, statsUrl |-> m.statsUrl, stats |-> stats]

\* the number of matches of a gameweek sequence
RECURSIVE matchCount(_)
matchCount(gws) ==
    IF gws = << >> THEN 0 ELSE Len(gws[1].matches) + matchCount(Tail(gws))

\* the loops over j and k of enrichedResults; outcomes[n + 1], outcomes[n + 2], ...
\* are the outcomes of the calls of scrapeMatchStats, in the order they are made
RECURSIVE enrichGameweeks(_, _, _)
enrichGameweeks(gws, outcomes, n) ==
    IF gws = << >> THEN << >>
    ELSE <<[gws[1] EXCEPT !.matches =
                [k \in 1..Len(@) |-> withStats(@[k], outcomes[n + k])]]>>
         \o enrichGameweeks(Tail(gws), outcomes, n + Len(gws[1].matches))

\* the bucket after enrichedResults(bucket): the matches are changed in place, entry
\* by entry, and the entries from the first one without gameweeks on are not reached
RECURSIVE enrichedInPlace(_, _, _)
enrichedInPlace(bucket, outcomes, n) ==
    IF bucket = << >> THEN << >>
    ELSE IF ~bucket[1].hasGameweeks THEN bucket
    ELSE <<[bucket[1] EXCEPT !.gameweeks = enrichGameweeks(@, outcomes, n)]>>
         \o enrichedInPlace(Tail(bucket), outcomes, n + matchCount(bucket[1].gameweeks))

\* the matches enrichedResults reaches in a bucket
RECURSIVE reachedMatches(_)
reachedMatches(bucket) ==
    IF bucket = << >> \/ ~bucket[1].hasGameweeks THEN 0
    ELSE matchCount(bucket[1].gameweeks) + reachedMatches(Tail(bucket))

TourIdle ==
    /\ tpc = "idle"
    /\ maxRescrapeCount = 0
    /\ seasonLinks = << >>
    /\ seasonIndex = 0
    /\ rescrapeIndex = 0
    /\ firstAttempt = NotReturned
    /\ isErrorResolved = FALSE
    /\ results = << >>
    /\ repairedData = << >>
    /\ erroneousData = << >>
    /\ files = {}
    /\ attemptFlags = << >>
    /\ placements = << >>
    /\ leaguesOnlyOption = FALSE
    /\ landingKind = "unchecked"
    /\ rescrapeOption = 0

InitTour ==
    /\ tpc = "start"
    /\ rescrapeOption \in 0..MaxRescrapeOption
    /\ maxRescrapeCount = effectiveMaxRescrapeCount(rescrapeOption)
    /\ seasonLinks = << >>
    /\ seasonIndex = 0
    /\ rescrapeIndex = 0
    /\ firstAttempt = NotReturned
    /\ isErrorResolved = FALSE
    /\ results = << >>
    /\ repairedData = << >>
    /\ erroneousData = << >>
    /\ files = {}
    /\ attemptFlags = << >>
    /\ placements = << >>
    /\ leaguesOnlyOption \in BOOLEAN
    /\ landingKind = "unchecked"

skipsNoCompetition(only, kind) == FALSE

\* if (leaguesOnly) { if (!isLeague) return } in scrapeSeasonsLinks, then
\* "if (!seasonLinks) return"
skipsCompetition(only, kind) == only /\ kind = "other"

\* what the league check finds: it is made only with leaguesOnly, and not when the
\* landing page could not be loaded
landingKinds(only) == IF only THEN {"league", "other", "unchecked"} ELSE {"unchecked"}

\* history: the error flag of one more crawl attempt of the current season
logAttempt(g) ==
    attemptFlags' = [attemptFlags EXCEPT ![seasonIndex] = Append(@, g.hasErrorOccurred)]

\* the end of the body of the season loop, i++ and the loop condition
NextSeason ==
    /\ seasonIndex' = seasonIndex + 1
    /\ tpc' = IF seasonIndex < Len(seasonLinks) THEN "first" ELSE "composed"

\* scrapeSeasonsLinks returns undefined (a competition that is not a league, with
\* leaguesOnly): "if (!seasonLinks) return"
DiscoverySkips ==
    /\ tpc = "start"
    /\ \E kind \in landingKinds(leaguesOnlyOption) :
        /\ skipsCompetition(leaguesOnlyOption, kind)
        /\ landingKind' = kind
    /\ tpc' = "done"
    /\ UNCHANGED <<leaguesOnlyOption, rescrapeOption>>
    /\ UNCHANGED <<maxRescrapeCount, seasonLinks, seasonIndex, rescrapeIndex, firstAttempt,
                   isErrorResolved, results, repairedData, erroneousData, files,
                   attemptFlags, placements>>
    /\ UNCHANGED <<seqVars, retryVars, scrapeVars, discVars, navVars, stabVars, sessVars>>

\* scrapeSeasonsLinks returns the season links (none when it caught an error or no
\* season qualified); the season loop starts with the first one
DiscoveryReturns ==
    /\ tpc = "start"
    /\ \E kind \in landingKinds(leaguesOnlyOption), n \in 0..MaxSeasons :
        /\ ~skipsCompetition(leaguesOnlyOption, kind)
        /\ leaguesOnlyOption /\ kind = "unchecked" => n = 0
        /\ landingKind' = kind
        /\ seasonLinks' = [k \in 1..n |-> seasonLink(k)]
        /\ attemptFlags' = [k \in 1..n |-> << >>]
        /\ tpc' = IF n > 0 THEN "first" ELSE "composed"
    /\ seasonIndex' = 1
    /\ UNCHANGED <<maxRescrapeCount, rescrapeIndex, firstAttempt, isErrorResolved, results,
                   repairedData, erroneousData, files, placements>>
    /\ UNCHANGED <<leaguesOnlyOption, rescrapeOption>>
    /\ UNCHANGED <<seqVars, retryVars, scrapeVars, discVars, navVars, stabVars, sessVars>>

\* fs.mkdir of the data directory rejects, or scrapeSeasonsLinks rejects (fs.mkdir,
\* puppeteer.launch and the page set-up run before its try, an error thrown inside its
\* catch block, browser.close in its finally): scrapeTournament has no handler and
\* rejects before the season loop
DiscoveryRejects ==
    /\ tpc = "start"
    /\ tpc' = "threw"
    /\ UNCHANGED <<maxRescrapeCount, seasonLinks, seasonIndex, rescrapeIndex, firstAttempt,
                   isErrorResolved, results, repairedData, erroneousData, files,
                   attemptFlags, placements>>
    /\ UNCHANGED <<leaguesOnlyOption, landingKind, rescrapeOption>>
    /\ UNCHANGED <<seqVars, retryVars, scrapeVars, discVars, navVars, stabVars, sessVars>>

\* the first crawl attempt of season i returns: without the flag the season is pushed
\* to results, with the flag the rescrape loop is entered
FirstCrawlAttempt ==
    /\ tpc = "first"
    /\ \E g \in ScrapeReturns :
        /\ firstAttempt' = g
        /\ logAttempt(g)
        /\ IF flagged(g)
           THEN /\ isErrorResolved' = FALSE
                /\ rescrapeIndex' = 0
                /\ IF rescrapeLoopCondition(0, maxRescrapeCount)
                   THEN /\ tpc' = "rescrape"
                        /\ UNCHANGED <<seasonIndex, erroneousData, placements>>
                   ELSE /\ erroneousData' = Append(erroneousData, erroneousEntry(g, g))
                        /\ placements' = Append(placements, <<seasonIndex, "erroneous">>)
                        /\ NextSeason
                /\ UNCHANGED results
           ELSE /\ results' = Append(results, seasonRecord(seasonLinks[seasonIndex], g))
                /\ placements' = Append(placements, <<seasonIndex, "composed">>)
                /\ NextSeason
                /\ UNCHANGED <<isErrorResolved, rescrapeIndex, erroneousData>>
    /\ UNCHANGED <<maxRescrapeCount, seasonLinks, repairedData, files>>
    /\ UNCHANGED <<leaguesOnlyOption, landingKind, rescrapeOption>>
    /\ UNCHANGED <<seqVars, retryVars, scrapeVars, discVars, navVars, stabVars, sessVars>>

\* one iteration of the rescrape loop in which scrapeGameweeks returns, and, when the
\* loop ends with it, the push to erroneousData of an unresolved season
RescrapeAttempt ==
    /\ tpc = "rescrape"
    /\ \E gw \in ScrapeReturns :
        LET repaired == ~flagged(gw)
            leaves   == repaired /\ breakAfterRepair(rescrapeIndex, maxRescrapeCount)
            resolved == isErrorResolved \/ repaired
            exits    == leaves \/ ~rescrapeLoopCondition(rescrapeIndex + 1, maxRescrapeCount)
            toRepaired  == IF repaired THEN <<<<seasonIndex, "repaired">>>> ELSE << >>
            toErroneous == IF exits /\ ~resolved
                           THEN <<<<seasonIndex, "erroneous">>>> ELSE << >>
        IN
        /\ logAttempt(gw)
        /\ repairedData' = IF repaired
                           THEN Append(repairedData, seasonRecord(seasonLinks[seasonIndex], gw))
                           ELSE repairedData
        /\ isErrorResolved' = resolved
        /\ rescrapeIndex' = IF leaves THEN rescrapeIndex ELSE rescrapeIndex + 1
        /\ erroneousData' = IF exits /\ ~resolved
                            THEN Append(erroneousData, erroneousEntry(firstAttempt, gw))
                            ELSE erroneousData
        /\ placements' = placements \o toRepaired \o toErroneous
        /\ IF exits THEN NextSeason ELSE UNCHANGED <<seasonIndex, tpc>>
    /\ UNCHANGED <<maxRescrapeCount, seasonLinks, firstAttempt, results, files>>
    /\ UNCHANGED <<leaguesOnlyOption, landingKind, rescrapeOption>>
    /\ UNCHANGED <<seqVars, retryVars, scrapeVars, discVars, navVars, stabVars, sessVars>>

\* scrapeGameweeks rejects (fs.mkdir, puppeteer.launch and the page set-up run before
\* its try, browser.close in its finally): scrapeTournament has no handler and rejects
ScrapeGameweeksRejects ==
    /\ tpc \in {"first", "rescrape"}
    /\ tpc' = "threw"
    /\ UNCHANGED <<maxRescrapeCount, seasonLinks, seasonIndex, rescrapeIndex, firstAttempt,
                   isErrorResolved, results, repairedData, erroneousData, files,
                   attemptFlags, placements>>
    /\ UNCHANGED <<leaguesOnlyOption, landingKind, rescrapeOption>>
    /\ UNCHANGED <<seqVars, retryVars, scrapeVars, discVars, navVars, stabVars, sessVars>>

\* after the season loop: composed.json, then enrichedResults(results), which writes
\* the stats of every match it reaches into results, and composed.enriched.json
PersistComposed ==
    /\ tpc = "composed"
    /\ IF shouldPersist(results)
       THEN /\ \E outcomes \in [1..reachedMatches(results) -> StatsOutcomes] :
                 results' = enrichedInPlace(results, outcomes, 0)
            /\ IF enrichmentThrows(results)
               THEN /\ files' = files \cup {"composed.json"}
                    /\ tpc' = "threw"
               ELSE /\ files' = files \cup {"composed.json", "composed.enriched.json"}
                    /\ tpc' = "erroneous"
       ELSE /\ tpc' = "erroneous"
            /\ UNCHANGED <<files, results>>
    /\ UNCHANGED <<maxRescrapeCount, seasonLinks, seasonIndex, rescrapeIndex, firstAttempt,
                   isErrorResolved, repairedData, erroneousData,
                   attemptFlags, placements>>
    /\ UNCHANGED <<leaguesOnlyOption, landingKind, rescrapeOption>>
    /\ UNCHANGED <<seqVars, retryVars, scrapeVars, discVars, navVars, stabVars, sessVars>>

\* erroneous.json
PersistErroneous ==
    /\ tpc = "erroneous"
    /\ files' = IF shouldPersist(erroneousData) THEN files \cup {"erroneous.json"} ELSE files
    /\ tpc' = "repaired"
    /\ UNCHANGED <<maxRescrapeCount, seasonLinks, seasonIndex, rescrapeIndex, firstAttempt,
                   isErrorResolved, results, repairedData, erroneousData,
                   attemptFlags, placements>>
    /\ UNCHANGED <<leaguesOnlyOption, landingKind, rescrapeOption>>
    /\ UNCHANGED <<seqVars, retryVars, scrapeVars, discVars, navVars, stabVars, sessVars>>

\* repaired.json, then enrichedResults(repairedData), which writes the stats of every
\* match it reaches into repairedData, and repaired.enriched.json
PersistRepaired ==
    /\ tpc = "repaired"
    /\ IF shouldPersist(repairedData)
       THEN /\ \E outcomes \in [1..reachedMatches(repairedData) -> StatsOutcomes] :
                 repairedData' = enrichedInPlace(repairedData, outcomes, 0)
            /\ IF enrichmentThrows(repairedData)
               THEN /\ files' = files \cup {"repaired.json"}
                    /\ tpc' = "threw"
               ELSE /\ files' = files \cup {"repaired.json", "repaired.enriched.json"}
                    /\ tpc' = "done"
       ELSE /\ tpc' = "done"
            /\ UNCHANGED <<files, repairedData>>
    /\ UNCHANGED <<maxRescrapeCount, seasonLinks, seasonIndex, rescrapeIndex, firstAttempt,
                   isErrorResolved, results, erroneousData,
                   attemptFlags, placements>>
    /\ UNCHANGED <<leaguesOnlyOption, landingKind, rescrapeOption>>
    /\ UNCHANGED <<seqVars, retryVars, scrapeVars, discVars, navVars, stabVars, sessVars>>

-----------------------------------------------------------------------------
(* Gameweek navigation of scrapeGameweeks (src/lib/league_scraper.js 252-328) *)

\* largest gameweek index a season page of this component shows
MaxLabel == 10
\* gameweeks of the for loop that are followed
MaxNavigated == 2
\* most page updates requested and not yet rendered
MaxPending == 2
\* maxRetries = 3, the default of withRetry
WithRetryDefault == 3

sGameweek == <<71, 97, 109, 101, 119, 101, 101, 107, 32>>     \* "Gameweek "
sGameweek1 == sGameweek \o <<49>>                             \* "Gameweek 1"

\* the decimal digits of a positive integer
RECURSIVE decimal(_)
decimal(n) == IF n < 10 THEN <<48 + n>> ELSE decimal(n \div 10) \o <<48 + (n % 10)>>

\* the textContent of #week_sel when the page shows gameweek n
labelText(n) == sGameweek \o decimal(n)

\* text.match(/\d+/)[0]: the first run of digits
RECURSIVE firstDigits(_)
firstDigits(text) ==
    IF text = << >> THEN << >>
    ELSE IF isDigit(Head(text)) THEN text
    ELSE firstDigits(Tail(text))

\* parseInt(text.match(/\d+/)[0], 10)
parseLabel(text) == digitPrefix(firstDigits(text), 0, 0).value

\* document.querySelector('#week_sel')?.textContent.includes('Gameweek 1')
showsGameweek1(text) == includes(text, sGameweek1)

\* text && parseInt(text.match(/\d+/)[0], 10) <= week
notAfter(text, current) == parseLabel(text) <= current

\* text && parseInt(text.match(/\d+/)[0], 10) === w
showsGameweek(text, w) == parseLabel(text) = w

chooseDropdownFirst(weeksDiv, dropdown) ==
    IF dropdown THEN "dropdown" ELSE IF weeksDiv THEN "index" ELSE "sequential"

\* if (hasWeeksDiv) ... else { if (hasDropdown) ... else ... }
chooseStrategy(weeksDiv, dropdown) ==
    IF weeksDiv THEN "index" ELSE IF dropdown THEN "dropdown" ELSE "sequential"

\* the page update a click or a select asks for
Update(control, index) == [control |-> control, index |-> index]

\* what the page shows once it has rendered an update: the index asked for, or one
\* gameweek forward or backward, within the gameweeks of the season
rendered(update, shown, max) ==
    IF update.control \in {"week_num", "week_select"} THEN update.index
    ELSE IF update.control = "week_next" THEN (IF shown < max THEN shown + 1 ELSE shown)
    ELSE (IF shown > 1 THEN shown - 1 ELSE shown)

\* the interaction of the navigation to Gameweek 1 under a strategy
gameweek1Update(strategy) ==
    IF strategy = "index" THEN <<Update("week_num", 1)>>
    ELSE <<Update("week_select", 1)>>

\* the interaction of the navigation to gameweek w under a strategy:
\* ".week_num.week_w" clicked, '#week_select' set, or, with w > 1, '#week_next' clicked
gameweekUpdate(strategy, w) ==
    IF strategy = "index" THEN <<Update("week_num", w)>>
    ELSE IF strategy = "dropdown" THEN <<Update("week_select", w)>>
    ELSE IF w > 1 THEN <<Update("week_next", 0)>>
    ELSE << >>

NavIdle ==
    /\ npc = "idle"
    /\ hasWeeksDiv = FALSE
    /\ hasDropdown = FALSE
    /\ navMax = 0
    /\ displayed = 0
    /\ pendingUpdates = << >>
    /\ navWeek = 0
    /\ navRetryCount = 0
    /\ opRuns = 0
    /\ currentGameweek = 0
    /\ strategyUsed = "none"

\* the season page has loaded and #maxweek has been read; it shows one of its gameweeks
InitNav ==
    /\ npc = "gameweek1"
    /\ hasWeeksDiv \in BOOLEAN
    /\ hasDropdown \in BOOLEAN
    /\ navMax \in {1, 3, MaxLabel}
    /\ displayed \in 1..navMax
    /\ pendingUpdates = << >>
    /\ navWeek = 0
    /\ navRetryCount = 0
    /\ opRuns = 1
    /\ currentGameweek = 0
    /\ strategyUsed = "none"

\* the page renders the oldest update asked for
PageRenders ==
    /\ npc \notin {"idle", "done", "failed"}
    /\ pendingUpdates # << >>
    /\ displayed' = rendered(Head(pendingUpdates), displayed, navMax)
    /\ pendingUpdates' = Tail(pendingUpdates)
    /\ UNCHANGED <<npc, hasWeeksDiv, hasDropdown, navMax, navWeek, navRetryCount, opRuns,
                   currentGameweek, strategyUsed>>
    /\ UNCHANGED stabVars
    /\ UNCHANGED <<seqVars, retryVars, scrapeVars, tourVars, discVars, sessVars>>

\* navigation to Gameweek 1: detect the affordances, then click ".week_num.week_1",
\* set '#week_select' to '1', or read the displayed index for the stepping loop
Gameweek1Interact ==
    /\ npc = "gameweek1"
    /\ Len(pendingUpdates) < MaxPending
    /\ LET strategy == chooseStrategy(hasWeeksDiv, hasDropdown) IN
       /\ strategyUsed' = strategy
       /\ IF strategy = "sequential"
          THEN /\ currentGameweek' = parseLabel(labelText(displayed))
               /\ npc' = "stepping"
               /\ UNCHANGED pendingUpdates
          ELSE /\ pendingUpdates' = pendingUpdates \o gameweek1Update(strategy)
               /\ npc' = "gameweek1wait"
               /\ UNCHANGED currentGameweek
    /\ UNCHANGED <<hasWeeksDiv, hasDropdown, navMax, displayed, navWeek, navRetryCount, opRuns>>
    /\ UNCHANGED stabVars
    /\ UNCHANGED <<seqVars, retryVars, scrapeVars, tourVars, discVars, sessVars>>

\* the for loop starts: week = 1, retryCount = 0
enterGameweekLoop ==
    /\ npc' = "gameweek"
    /\ navWeek' = 1
    /\ navRetryCount' = 0
    /\ opRuns' = 1

\* the wait for the label of Gameweek 1 finds its predicate true
Gameweek1WaitPasses ==
    /\ npc = "gameweek1wait"
    /\ showsGameweek1(labelText(displayed))
    /\ enterGameweekLoop
    /\ UNCHANGED <<hasWeeksDiv, hasDropdown, navMax, displayed, pendingUpdates,
                   currentGameweek, strategyUsed>>
    /\ UNCHANGED stabVars
    /\ UNCHANGED <<seqVars, retryVars, scrapeVars, tourVars, discVars, sessVars>>

\* the wait times out: withRetry runs the navigation again when it takes the error for
\* a network error and attempts are left, else the outer catch ends the attempt
Gameweek1WaitTimesOut ==
    /\ npc = "gameweek1wait"
    /\ ~showsGameweek1(labelText(displayed))
    /\ \/ /\ opRuns < WithRetryDefault
          /\ opRuns' = opRuns + 1
          /\ npc' = "gameweek1"
       \/ /\ npc' = "failed"
          /\ UNCHANGED opRuns
    /\ UNCHANGED <<hasWeeksDiv, hasDropdown, navMax, displayed, pendingUpdates, navWeek,
                   navRetryCount, currentGameweek, strategyUsed>>
    /\ UNCHANGED stabVars
    /\ UNCHANGED <<seqVars, retryVars, scrapeVars, tourVars, discVars, sessVars>>

\* while (currentGameweek > 1): click '#week_prev'; the loop ends with the navigation
SteppingLoop ==
    /\ npc = "stepping"
    /\ IF currentGameweek > 1
       THEN /\ Len(pendingUpdates) < MaxPending
            /\ pendingUpdates' = Append(pendingUpdates, Update("week_prev", 0))
            /\ npc' = "steppingwait"
            /\ UNCHANGED <<navWeek, navRetryCount, opRuns>>
       ELSE /\ enterGameweekLoop
            /\ UNCHANGED pendingUpdates
    /\ UNCHANGED <<hasWeeksDiv, hasDropdown, navMax, displayed, currentGameweek, strategyUsed>>
    /\ UNCHANGED stabVars
    /\ UNCHANGED <<seqVars, retryVars, scrapeVars, tourVars, discVars, sessVars>>

\* the wait after the click finds the label not after currentGameweek
SteppingWaitPasses ==
    /\ npc = "steppingwait"
    /\ notAfter(labelText(displayed), currentGameweek)
    /\ npc' = "steppingread"
    /\ UNCHANGED <<hasWeeksDiv, hasDropdown, navMax, displayed, pendingUpdates, navWeek,
                   navRetryCount, opRuns, currentGameweek, strategyUsed>>
    /\ UNCHANGED stabVars
    /\ UNCHANGED <<seqVars, retryVars, scrapeVars, tourVars, discVars, sessVars>>

\* the displayed index is read again, in a page.evaluate of its own: the page may have
\* rendered since the wait passed
SteppingRead ==
    /\ npc = "steppingread"
    /\ currentGameweek' = parseLabel(labelText(displayed))
    /\ npc' = "stepping"
    /\ UNCHANGED <<hasWeeksDiv, hasDropdown, navMax, displayed, pendingUpdates, navWeek,
                   navRetryCount, opRuns, strategyUsed>>
    /\ UNCHANGED stabVars
    /\ UNCHANGED <<seqVars, retryVars, scrapeVars, tourVars, discVars, sessVars>>

\* navigation to gameweek "week": detect the affordances, click or select
GameweekInteract ==
    /\ npc = "gameweek"
    /\ LET strategy == chooseStrategy(hasWeeksDiv, hasDropdown) IN
       /\ Len(pendingUpdates) + Len(gameweekUpdate(strategy, navWeek)) <= MaxPending
       /\ strategyUsed' = strategy
       /\ pendingUpdates' = pendingUpdates \o gameweekUpdate(strategy, navWeek)
    /\ npc' = "gameweekwait"
    /\ UNCHANGED <<hasWeeksDiv, hasDropdown, navMax, displayed, navWeek, navRetryCount,
                   opRuns, currentGameweek>>
    /\ UNCHANGED stabVars
    /\ UNCHANGED <<seqVars, retryVars, scrapeVars, tourVars, discVars, sessVars>>

\* the wait for the label of gameweek "week" finds its predicate true: stabilization
\* and extraction follow
GameweekWaitPasses ==
    /\ npc = "gameweekwait"
    /\ showsGameweek(labelText(displayed), navWeek)
    /\ npc' = "extract"
    /\ opRuns' = 1
    /\ UNCHANGED <<hasWeeksDiv, hasDropdown, navMax, displayed, pendingUpdates, navWeek,
                   navRetryCount, currentGameweek, strategyUsed>>
    /\ UNCHANGED stabVars
    /\ UNCHANGED <<seqVars, retryVars, scrapeVars, tourVars, discVars, sessVars>>

\* retryCount++, and the next gameweek (or the end of the followed part of the loop)
\* when the retries are used up
afterFailedAttempt ==
    /\ opRuns' = 1
    /\ IF navRetryCount + 1 < GameweekMaxRetries
       THEN /\ navRetryCount' = navRetryCount + 1
            /\ npc' = "gameweek"
            /\ UNCHANGED navWeek
       ELSE /\ navRetryCount' = 0
            /\ navWeek' = navWeek + 1
            /\ npc' = IF navWeek + 1 <= navMax /\ navWeek + 1 <= MaxNavigated
                      THEN "gameweek" ELSE "done"

\* the wait times out: withRetry runs the navigation again, or the inner catch counts
\* a failed attempt
GameweekWaitTimesOut ==
    /\ npc = "gameweekwait"
    /\ ~showsGameweek(labelText(displayed), navWeek)
    /\ \/ /\ opRuns < WithRetryDefault
          /\ opRuns' = opRuns + 1
          /\ npc' = "gameweek"
          /\ UNCHANGED <<navWeek, navRetryCount>>
       \/ afterFailedAttempt
    /\ UNCHANGED <<hasWeeksDiv, hasDropdown, navMax, displayed, pendingUpdates,
                   currentGameweek, strategyUsed>>
    /\ UNCHANGED stabVars
    /\ UNCHANGED <<seqVars, retryVars, scrapeVars, tourVars, discVars, sessVars>>

\* the gameweek is extracted and accepted: week++
AttemptAccepted ==
    /\ npc = "extract"
    /\ navWeek' = navWeek + 1
    /\ navRetryCount' = 0
    /\ npc' = IF navWeek + 1 <= navMax /\ navWeek + 1 <= MaxNavigated THEN "gameweek" ELSE "done"
    /\ UNCHANGED <<hasWeeksDiv, hasDropdown, navMax, displayed, pendingUpdates, opRuns,
                   currentGameweek, strategyUsed>>
    /\ UNCHANGED stabVars
    /\ UNCHANGED <<seqVars, retryVars, scrapeVars, tourVars, discVars, sessVars>>

\* the stabilization wait or the extraction throws, or a duplicate or sparsity anomaly
\* is found: the same gameweek is navigated to again
AttemptRejected ==
    /\ npc = "extract"
    /\ afterFailedAttempt
    /\ UNCHANGED <<hasWeeksDiv, hasDropdown, navMax, displayed, pendingUpdates,
                   currentGameweek, strategyUsed>>
    /\ UNCHANGED stabVars
    /\ UNCHANGED <<seqVars, retryVars, scrapeVars, tourVars, discVars, sessVars>>

-----------------------------------------------------------------------------
(* Stabilization wait of scrapeGameweeks (src/lib/league_scraper.js 330-342) *)

\* most match rows the gameweek container shows
MaxContainerRows == 2
\* polls of one waitForFunction that are followed
MaxPolls == 3
\* stabilization waits of one page that are followed
MaxWaits == 3

\* rows.length > 0 && rows.length === prevCount && every row has '.gsa-c-team_full'
isStable(count, prevCount, populated) == count > 0 /\ count = prevCount /\ populated

StabIdle ==
    /\ wpc = "idle"
    /\ prevMatchCount = 0
    /\ rowCount = 0
    /\ teamsPopulated = FALSE
    /\ pollsInWait = 0
    /\ waitsStarted = 0

\* the page before the first stabilization wait: window.__prevMatchCount is undefined
InitStab ==
    /\ wpc = "between"
    /\ prevMatchCount = 0
    /\ rowCount \in 0..MaxContainerRows
    /\ teamsPopulated \in BOOLEAN
    /\ pollsInWait = 0
    /\ waitsStarted = 0

\* the page renders: rows are added to or removed from '#week_container', team names
\* are filled in or not; also after the wait has passed and before the extraction runs
ContainerChanges ==
    /\ wpc \in {"selector", "poll", "stable"}
    /\ \E count \in 0..MaxContainerRows, populated \in BOOLEAN :
        /\ <<count, populated>> # <<rowCount, teamsPopulated>>
        /\ rowCount' = count
        /\ teamsPopulated' = populated
    /\ UNCHANGED <<wpc, prevMatchCount, pollsInWait, waitsStarted>>
    /\ UNCHANGED navVars
    /\ UNCHANGED <<seqVars, retryVars, scrapeVars, tourVars, discVars, sessVars>>

\* a navigation has been confirmed (for the next gameweek or for a retry):
\* withRetry(...) of the stabilization starts with page.waitForSelector
WaitStarts ==
    /\ wpc = "between"
    /\ waitsStarted < MaxWaits
    /\ waitsStarted' = waitsStarted + 1
    /\ pollsInWait' = 0
    /\ wpc' = "selector"
    /\ UNCHANGED <<prevMatchCount, rowCount, teamsPopulated>>
    /\ UNCHANGED navVars
    /\ UNCHANGED <<seqVars, retryVars, scrapeVars, tourVars, discVars, sessVars>>

\* '#week_container .gsa-c-match-row' is found
SelectorFound ==
    /\ wpc = "selector"
    /\ rowCount > 0
    /\ wpc' = "poll"
    /\ UNCHANGED <<prevMatchCount, rowCount, teamsPopulated, pollsInWait, waitsStarted>>
    /\ UNCHANGED navVars
    /\ UNCHANGED <<seqVars, retryVars, scrapeVars, tourVars, discVars, sessVars>>

\* one evaluation of the predicate of page.waitForFunction: it stores the row count on
\* the window and the wait is over when it returns true
Poll ==
    /\ wpc = "poll"
    /\ pollsInWait < MaxPolls
    /\ pollsInWait' = pollsInWait + 1
    /\ prevMatchCount' = rowCount
    /\ wpc' = IF isStable(rowCount, prevMatchCount, teamsPopulated)
              THEN "stable" ELSE "poll"
    /\ UNCHANGED <<rowCount, teamsPopulated, waitsStarted>>
    /\ UNCHANGED navVars
    /\ UNCHANGED <<seqVars, retryVars, scrapeVars, tourVars, discVars, sessVars>>

\* one of the two waits times out: the error reaches the inner catch and the gameweek
\* is tried again
WaitTimesOut ==
    /\ wpc \in {"selector", "poll"}
    /\ wpc' = "between"
    /\ UNCHANGED <<prevMatchCount, rowCount, teamsPopulated, pollsInWait, waitsStarted>>
    /\ UNCHANGED navVars
    /\ UNCHANGED <<seqVars, retryVars, scrapeVars, tourVars, discVars, sessVars>>

\* the rows the page shows then are extracted; the page is then navigated to the next
\* gameweek or to the same one again, and shows the rows of that gameweek
ExtractAndNavigate ==
    /\ wpc = "stable"
    /\ wpc' = "between"
    /\ \E count \in 0..MaxContainerRows, populated \in BOOLEAN :
        /\ rowCount' = count
        /\ teamsPopulated' = populated
    /\ UNCHANGED <<prevMatchCount, pollsInWait, waitsStarted>>
    /\ UNCHANGED navVars
    /\ UNCHANGED <<seqVars, retryVars, scrapeVars, tourVars, discVars, sessVars>>

-----------------------------------------------------------------------------
(* Browser sessions of scrapeSeasonsLinks and scrapeGameweeks *)

\* calls of scrapeSeasonsLinks and scrapeGameweeks by one run that are followed
MaxCalls == 6

\* how the try block of a call is left
ExitPaths == {"return", "earlyReturn", "caughtError", "catchThrows"}

leavesSessionOpen(open) == open

\* finally { await browser.close() }
closeSession(open) == open - 1

SessIdle ==
    /\ sessPc = "idle"
    /\ openSessions = 0
    /\ callsMade = 0
    /\ callKind = "none"
    /\ exitPath = "none"
    /\ closedSessions = 0

\* scrapeTournament is about to call scrapeSeasonsLinks
InitSess ==
    /\ sessPc = "call"
    /\ openSessions = 0
    /\ callsMade = 0
    /\ callKind = "none"
    /\ exitPath = "none"
    /\ closedSessions = 0

\* the call starts: fs.mkdir, then puppeteer.launch opens a session. The first call of a
\* run is scrapeSeasonsLinks, the later ones are scrapeGameweeks
LaunchBrowser ==
    /\ sessPc = "call"
    /\ callsMade < MaxCalls
    /\ callsMade' = callsMade + 1
    /\ callKind' = IF callsMade = 0 THEN "discovery" ELSE "crawl"
    /\ openSessions' = openSessions + 1
    /\ exitPath' = "none"
    /\ sessPc' = "prologue"
    /\ UNCHANGED closedSessions
    /\ UNCHANGED <<navVars, stabVars>>
    /\ UNCHANGED <<seqVars, retryVars, scrapeVars, tourVars, discVars>>

\* fs.mkdir or puppeteer.launch rejects: no session is opened and the call rejects
LaunchRejects ==
    /\ sessPc = "call"
    /\ callsMade < MaxCalls
    /\ callsMade' = callsMade + 1
    /\ callKind' = IF callsMade = 0 THEN "discovery" ELSE "crawl"
    /\ exitPath' = "none"
    /\ sessPc' = "rejected"
    /\ UNCHANGED <<openSessions, closedSessions>>
    /\ UNCHANGED <<navVars, stabVars>>
    /\ UNCHANGED <<seqVars, retryVars, scrapeVars, tourVars, discVars>>

\* browser.newPage, page.setUserAgent and page.setExtraHTTPHeaders succeed: the try
\* block is entered
PageSetUp ==
    /\ sessPc = "prologue"
    /\ sessPc' = "try"
    /\ UNCHANGED <<openSessions, callsMade, callKind, exitPath, closedSessions>>
    /\ UNCHANGED <<navVars, stabVars>>
    /\ UNCHANGED <<seqVars, retryVars, scrapeVars, tourVars, discVars>>

\* one of them rejects, before the try block: the call rejects and no finally runs.
\* Neither scrapeTournament nor its callers handle the rejection
PageSetUpRejects ==
    /\ sessPc = "prologue"
    /\ sessPc' = "rejected"
    /\ UNCHANGED <<openSessions, callsMade, callKind, exitPath, closedSessions>>
    /\ UNCHANGED <<navVars, stabVars>>
    /\ UNCHANGED <<seqVars, retryVars, scrapeVars, tourVars, discVars>>

\* the try block is left: by the return at its end, by an early return, by an error
\* that the catch block handles, or by an error thrown inside the catch block
LeaveTry ==
    /\ sessPc = "try"
    /\ exitPath' \in ExitPaths
    /\ sessPc' = "finally"
    /\ UNCHANGED <<openSessions, callsMade, callKind, closedSessions>>
    /\ UNCHANGED <<navVars, stabVars>>
    /\ UNCHANGED <<seqVars, retryVars, scrapeVars, tourVars, discVars>>

\* finally { await browser.close() }: the session is closed, and the call returns, or
\* rejects with the error of the catch block
CloseBrowser ==
    /\ sessPc = "finally"
    /\ openSessions' = closeSession(openSessions)
    /\ closedSessions' = closedSessions + (openSessions - openSessions')
    /\ sessPc' = IF exitPath = "catchThrows" THEN "rejected" ELSE "returned"
    /\ UNCHANGED <<callsMade, callKind, exitPath>>
    /\ UNCHANGED <<navVars, stabVars>>
    /\ UNCHANGED <<seqVars, retryVars, scrapeVars, tourVars, discVars>>

\* browser.close() rejects, with the session closed or not: the call rejects
CloseBrowserRejects ==
    /\ sessPc = "finally"
    /\ \E open \in {openSessions, closeSession(openSessions)} :
        /\ openSessions' = open
        /\ closedSessions' = closedSessions + (openSessions - open)
    /\ sessPc' = "rejected"
    /\ UNCHANGED <<callsMade, callKind, exitPath>>
    /\ UNCHANGED <<navVars, stabVars>>
    /\ UNCHANGED <<seqVars, retryVars, scrapeVars, tourVars, discVars>>

\* scrapeTournament goes on after a call that returned: it calls scrapeGameweeks for a
\* first attempt or a rescrape, or it returns (no season left, or nothing discovered)
AfterCall ==
    /\ sessPc = "returned"
    /\ sessPc' \in {"call", "ended"}
    /\ UNCHANGED <<openSessions, callsMade, callKind, exitPath, closedSessions>>
    /\ UNCHANGED <<navVars, stabVars>>
    /\ UNCHANGED <<seqVars, retryVars, scrapeVars, tourVars, discVars>>

PageIdle == NavIdle /\ StabIdle /\ SessIdle

-----------------------------------------------------------------------------
(* Specifications *)

\* one season crawl attempt (scrapeGameweeks)
Init == SeqIdle /\ RetryIdle /\ InitScrape /\ TourIdle /\ DiscIdle /\ PageIdle

Next ==
    \/ NavigateSeasonFails
    \/ SeasonHasNoResults
    \/ ReadSeason
    \/ NavigateGameweek1
    \/ NavigateGameweek1Fails
    \/ AttemptThrows
    \/ AttemptExtracts
    \/ VerifySortReturn

Spec == Init /\ [][Next]_vars

\* sortGameweeksByDate and verifyGameweekData on every bounded gameweek sequence
InitSequencer == InitSeq /\ RetryIdle /\ ScrapeIdle /\ TourIdle /\ DiscIdle /\ PageIdle

NextSequencer == CallSort \/ CallSortAgain \/ CallVerify

SpecSequencer == InitSequencer /\ [][NextSequencer]_vars

\* one call of withRetry
InitWithRetry == SeqIdle /\ InitRetry /\ ScrapeIdle /\ TourIdle /\ DiscIdle /\ PageIdle

NextWithRetry ==
    \/ LoopExit
    \/ OperationReturns
    \/ OperationThrows
    \/ ProbeSucceeds
    \/ ProbeFails
    \/ ReconnectLoopExit

SpecWithRetry == InitWithRetry /\ [][NextWithRetry]_vars

\* one run of scrapeTournament
InitTournament == SeqIdle /\ RetryIdle /\ ScrapeIdle /\ InitTour /\ DiscIdle /\ PageIdle

NextTournament ==
    \/ DiscoverySkips
    \/ DiscoveryReturns
    \/ DiscoveryRejects
    \/ FirstCrawlAttempt
    \/ RescrapeAttempt
    \/ ScrapeGameweeksRejects
    \/ PersistComposed
    \/ PersistErroneous
    \/ PersistRepaired

SpecTournament == InitTournament /\ [][NextTournament]_vars

\* scrapeLeagueStanding on every bounded season page
InitStandings ==
    SeqIdle /\ RetryIdle /\ ScrapeIdle /\ TourIdle /\ InitStanding /\ DiscoveryIdle /\ PageIdle

NextStandings == CallScrapeLeagueStanding

SpecStandings == InitStandings /\ [][NextStandings]_vars

\* one call of scrapeSeasonsLinks
InitSeasonsLinks ==
    SeqIdle /\ RetryIdle /\ ScrapeIdle /\ TourIdle /\ StandingIdle /\ InitDiscovery /\ PageIdle

NextSeasonsLinks ==
    \/ LandingFailsSnapshotThrows
    \/ LandingFails
    \/ LandingIsNotLeague
    \/ ReadSeasonOptions
    \/ CheckSeasonNavigationFails
    \/ CheckSeason
    \/ ReturnValidSeasons

SpecSeasonsLinks == InitSeasonsLinks /\ [][NextSeasonsLinks]_vars

OthersIdle == SeqIdle /\ RetryIdle /\ ScrapeIdle /\ TourIdle /\ DiscIdle

\* the navigation of one season crawl attempt
InitNavigation == OthersIdle /\ InitNav /\ StabIdle /\ SessIdle

NextNavigation ==
    \/ PageRenders
    \/ Gameweek1Interact
    \/ Gameweek1WaitPasses
    \/ Gameweek1WaitTimesOut
    \/ SteppingLoop
    \/ SteppingWaitPasses
    \/ SteppingRead
    \/ GameweekInteract
    \/ GameweekWaitPasses
    \/ GameweekWaitTimesOut
    \/ AttemptAccepted
    \/ AttemptRejected

SpecNavigation == InitNavigation /\ [][NextNavigation]_vars

\* the stabilization waits made on one page
InitStabilization == OthersIdle /\ NavIdle /\ InitStab /\ SessIdle

NextStabilization ==
    \/ ContainerChanges
    \/ WaitStarts
    \/ SelectorFound
    \/ Poll
    \/ WaitTimesOut
    \/ ExtractAndNavigate

SpecStabilization == InitStabilization /\ [][NextStabilization]_vars

\* the browser sessions of one run of scrapeTournament
InitSessions == OthersIdle /\ NavIdle /\ StabIdle /\ InitSess

NextSessions ==
    \/ LaunchBrowser
    \/ LaunchRejects
    \/ PageSetUp
    \/ PageSetUpRejects
    \/ LeaveTry
    \/ CloseBrowser
    \/ CloseBrowserRejects
    \/ AfterCall

SpecSessions == InitSessions /\ [][NextSessions]_vars

-----------------------------------------------------------------------------
(* Properties *)

\* the match identity of the data model: (homeTeam, awayTeam, date, score)
identity(m) == <<m.homeTeam, m.awayTeam, m.date, m.score>>

identities(ms) == {identity(ms[i]) : i \in 1..Len(ms)}

pairwiseDistinct(ms) ==
    \A i, j \in 1..Len(ms) : i # j => identity(ms[i]) # identity(ms[j])

\* C1: in every outcome scrapeGameweeks returns, the matches of all gameweeks of the
\* result have pairwise distinct identities (homeTeam, awayTeam, date, score)
C1_ResultMatchesDistinct ==
    returned.kind = "outcome" => pairwiseDistinct(flatten(returned.result))

\* a crawl with an anomaly and a retry that returns two gameweeks with matches
C1_Witness ==
    /\ returned.kind = "outcome"
    /\ returned.hasErrorOccurred
    /\ Len(returned.result) = 2
    /\ Len(flatten(returned.result)) >= 2
    /\ Len(allMatches) = 2

\* C2: the gameweek numbers of the output of sortGameweeksByDate are 1, 2, ..., N in
\* output order
C2_NumbersDense ==
    fpc # "input" => \A i \in 1..Len(sortedOnce) : sortedOnce[i].gameweek = i

\* a gameweek was dropped and the last input gameweek became the first output gameweek
C2_Witness ==
    /\ fpc = "sorted"
    /\ Len(gameweeks) = 3
    /\ Len(sortedOnce) = 2
    /\ sortedOnce[1].matches = gameweeks[3].matches
    /\ sortedOnce[2].matches = gameweeks[1].matches
    /\ gameweeks[3].matches # gameweeks[1].matches

\* C3: sortGameweeksByDate applied to its own output returns that output
C3_Idempotent ==
    fpc \in {"resorted", "verified"} => sortedTwice = sortedOnce

\* the first application dropped a gameweek and left two gameweeks with the same
\* earliest date next to each other; the second application has run
C3_Witness ==
    /\ fpc = "resorted"
    /\ Len(sortedOnce) >= 2
    /\ Len(sortedOnce) < Len(gameweeks)
    /\ earliestDate(sortedOnce[1]) = earliestDate(sortedOnce[2])
    /\ sortedOnce[1].matches # sortedOnce[2].matches

sameIdentitySet(a, b) == identities(a.matches) = identities(b.matches)

C5_RaisesIffDuplicateIdentity ==
    fpc = "verified" => (verdict.threw <=> ~pairwiseDistinct(flatten(gameweeks)))

\* the classes of error the Retry Orchestrator is specified to recover from
Recoverable == {msgDisconnected, msgNameNotResolved, msgNavTimeout}

failedRecoverably(r) == r.kind = "error" /\ r.message \in Recoverable

noProbeFailed == \A i \in 1..Len(reconnects) : ~reconnects[i].probeFailed

\* C6: when the first two calls of the operation fail with a recoverable network error
\* and the third succeeds, every probe having succeeded, withRetry returns the third
\* call's value after exactly three calls and exactly two backoff waits
C6_ThirdCallSucceeds ==
    (/\ Len(opResults) >= 3
     /\ failedRecoverably(opResults[1])
     /\ failedRecoverably(opResults[2])
     /\ opResults[3].kind = "ok"
     /\ noProbeFailed)
    => /\ Len(opResults) = 3
       /\ rpc = "done"
       /\ retryOutcome = Returned(opResults[3].value)
       /\ Len(backoffs) = 2

\* two failures by timeout, then a success
C6_Witness ==
    /\ rpc = "done"
    /\ Len(opResults) = 3
    /\ opResults[1].message = msgNavTimeout
    /\ opResults[2].message = msgNavTimeout
    /\ opResults[3].kind = "ok"
    /\ noProbeFailed
    /\ retryOutcome.kind = "returned"

\* C7 as stated: a call of the operation that fails with a non-recoverable error is the
\* last call, and withRetry throws that error
C7_NonRecoverableNotRetried ==
    \A k \in 1..Len(opResults) :
        (opResults[k].kind = "error" /\ opResults[k].message \notin Recoverable)
        => /\ Len(opResults) = k
           /\ rpc = "done"
           /\ retryOutcome = [kind |-> "threw", value |-> 0, message |-> opResults[k].message]

allCallsFailedRecoverably == \A k \in 1..Len(opResults) : failedRecoverably(opResults[k])

raisedLastAttemptsError ==
    /\ Len(opResults) = maxRetries
    /\ retryOutcome = [kind |-> "threw", value |-> 0, message |-> opResults[maxRetries].message]

\* C8 as stated: when every call fails with a recoverable network error and every probe
\* succeeds, the operation is called exactly maxRetries times and the last error is thrown
C8_Original ==
    (rpc = "done" /\ allCallsFailedRecoverably /\ noProbeFailed) => raisedLastAttemptsError

\* C8 amended: as stated, provided every reconnection wait ended before
\* maxWaitForReconnect had elapsed
C8_ExhaustsThenRaisesLast ==
    (/\ rpc = "done"
     /\ allCallsFailedRecoverably
     /\ noProbeFailed
     /\ \A i \in 1..Len(reconnects) : reconnects[i].waited < maxWaitForReconnect)
    => raisedLastAttemptsError

\* three attempts, each failed recoverably and was followed by a successful probe
C8_Witness ==
    /\ rpc = "done"
    /\ maxRetries = 3
    /\ Len(opResults) = 3
    /\ allCallsFailedRecoverably
    /\ noProbeFailed
    /\ Len(reconnects) = 3
    /\ \A i \in 1..Len(reconnects) : reconnects[i].probeSucceeded
    /\ \A i \in 1..Len(reconnects) : reconnects[i].waited < maxWaitForReconnect
    /\ retryOutcome.kind = "threw"

\* C9 as stated: a backoff wait lasts 2^attempt seconds, and a backoff wait or a
\* reconnection wait happens only after a failed attempt that is not the last one
C9_NoWaitAfterFinalAttempt ==
    /\ \A i \in 1..Len(backoffs) :
        /\ backoffs[i].ms = pow2(backoffs[i].attempt) * 1000
        /\ backoffs[i].attempt < maxRetries
    /\ rpc = "reconnect" => attempt < maxRetries
    /\ \A i \in 1..Len(reconnects) : reconnects[i].attempt < maxRetries

\* C10: a reconnection wait in which no probe succeeded ends with the error
\* 'Network reconnection timeout exceeded', and the operation is not called again
C10_ReconnectTimeoutIsFatal ==
    \A i \in 1..Len(reconnects) :
        ~reconnects[i].probeSucceeded
        => /\ reconnects[i].waited >= maxWaitForReconnect
           /\ rpc = "done"
           /\ retryOutcome = [kind |-> "threw", value |-> 0, message |-> msgReconnectTimeout]
           /\ Len(opResults) = reconnects[i].attempt

\* every probe of the wait after the first failed attempt failed, with attempts left
C10_Witness ==
    /\ rpc = "done"
    /\ maxRetries >= 2
    /\ Len(reconnects) = 1
    /\ reconnects[1].probeFailed
    /\ ~reconnects[1].probeSucceeded
    /\ reconnects[1].attempt = 1
    /\ Len(opResults) = 1
    /\ retryOutcome.message = msgReconnectTimeout

\* the pushes made for season i, in order, and the buckets they went to
pushesOf(i) == SelectSeq(placements, LAMBDA p : p[1] = i)

placedIn(bucket) == SelectSeq(placements, LAMBDA p : p[2] = bucket)

\* the season loop has run to its end
loopCompleted == tpc \in {"composed", "erroneous", "repaired", "done", "threw"}
                 /\ seasonIndex > Len(seasonLinks)

\* the pushes recorded are the entries of the three buckets, and an entry that carries
\* a season carries the season it was pushed for
placementsMatchBuckets ==
    /\ Len(placedIn("composed")) = Len(results)
    /\ Len(placedIn("repaired")) = Len(repairedData)
    /\ Len(placedIn("erroneous")) = Len(erroneousData)
    /\ \A k \in 1..Len(results) :
        results[k].season = seasonLinks[placedIn("composed")[k][1]].season
    /\ \A k \in 1..Len(repairedData) :
        repairedData[k].season = seasonLinks[placedIn("repaired")[k][1]].season

\* the run of scrapeTournament is over: it has returned or it has rejected
runEnded == tpc \in {"done", "threw"}

\* C11: in a run of scrapeTournament no season is ever pushed to two buckets or twice
\* to one, and when the run is over, however it ended, every season returned by Season
\* Discovery has been pushed to exactly one of results, repairedData and erroneousData:
\* never to none and never to two
C11_SeasonInExactlyOneBucket ==
    /\ placementsMatchBuckets
    /\ \A i \in 1..Len(seasonLinks) : Len(pushesOf(i)) <= 1
    /\ runEnded => \A i \in 1..Len(seasonLinks) : Len(pushesOf(i)) = 1

\* the season loop is past season i
finished(i) == i < seasonIndex

bucketOf(i) == pushesOf(i)[1][2]

\* rescrape k of season i is the first attempt after the first without the flag
firstCleanRescrape(i, k) ==
    /\ Len(attemptFlags[i]) >= k + 1
    /\ ~attemptFlags[i][k + 1]
    /\ \A h \in 1..k : attemptFlags[i][h]

allAttemptsFlagged(i) ==
    /\ Len(attemptFlags[i]) >= 1 + maxRescrapeCount
    /\ \A h \in 1..(1 + maxRescrapeCount) : attemptFlags[i][h]

\* the scenario: A clean, B flagged with rescrape 2 the first clean one, C flagged on
\* every attempt
scenarioABC ==
    /\ loopCompleted
    /\ Len(seasonLinks) = 3
    /\ ~attemptFlags[1][1]
    /\ firstCleanRescrape(2, 2)
    /\ allAttemptsFlagged(3)

\* C12: a season whose first attempt has no flag is pushed to results; one whose first
\* attempt has the flag and whose rescrape k <= maxRescrapeCount is the first without
\* it is pushed to repairedData; one whose first attempt and all maxRescrapeCount
\* rescrapes have the flag is pushed to erroneousData; for seasons A, B, C of the
\* scenario the buckets are [A], [B] and [the entry pushed for C]
C12_BucketFollowsAttempts ==
    /\ \A i \in 1..Len(seasonLinks) :
        finished(i) /\ Len(attemptFlags[i]) > 0 =>
            /\ Len(pushesOf(i)) > 0
            /\ ~attemptFlags[i][1] => bucketOf(i) = "composed"
            /\ (\E k \in 1..maxRescrapeCount : firstCleanRescrape(i, k))
                    => bucketOf(i) = "repaired"
            /\ allAttemptsFlagged(i) => bucketOf(i) = "erroneous"
    /\ scenarioABC =>
            /\ placements = <<<<1, "composed">>, <<2, "repaired">>, <<3, "erroneous">>>>
            /\ Len(results) = 1 /\ results[1].season = seasonLabel(1)
            /\ Len(repairedData) = 1 /\ repairedData[1].season = seasonLabel(2)
            /\ Len(erroneousData) = 1

\* the scenario has run to the end
C12_Witness ==
    /\ scenarioABC
    /\ tpc = "done"
    /\ maxRescrapeCount = 3

\* C13: composed.json, erroneous.json and repaired.json (and the enriched files) are
\* written only when results, erroneousData and repairedData respectively are not empty
C13_NoArtifactForEmptyBucket ==
    /\ "composed.json" \in files => Len(results) > 0
    /\ "composed.enriched.json" \in files => Len(results) > 0
    /\ "erroneous.json" \in files => Len(erroneousData) > 0
    /\ "repaired.json" \in files => Len(repairedData) > 0
    /\ "repaired.enriched.json" \in files => Len(repairedData) > 0

\* a finished run over two seasons that wrote erroneous.json and nothing else
C13_Witness ==
    /\ tpc = "done"
    /\ Len(seasonLinks) = 2
    /\ Len(erroneousData) = 2
    /\ files = {"erroneous.json"}

\* C14: with maxRescrapeCount >= 1 a season is rescraped only after a flagged first
\* attempt, no rescrape follows a rescrape without the flag, and a season has at most
\* maxRescrapeCount rescrapes (1 + maxRescrapeCount attempts)
C14_RescrapesBounded ==
    maxRescrapeCount >= 1 =>
        \A i \in 1..Len(seasonLinks) :
            /\ Len(attemptFlags[i]) <= 1 + maxRescrapeCount
            /\ Len(attemptFlags[i]) > 1 => attemptFlags[i][1]
            /\ \A k \in 2..(Len(attemptFlags[i]) - 1) : attemptFlags[i][k]

\* one season stopped at its first clean rescrape with rescrapes to spare, another
\* used all its rescrapes
C14_Witness ==
    /\ tpc = "done"
    /\ maxRescrapeCount = 2
    /\ Len(seasonLinks) = 2
    /\ attemptFlags[1] = <<TRUE, FALSE>>
    /\ attemptFlags[2] = <<TRUE, TRUE, TRUE>>

\* C15: every entry of results, repairedData and erroneousData is a record
\* { season, gameweeks, leagueStanding } carrying the season it was pushed for
C15_EntriesAreSeasonRecords ==
    /\ \A k \in 1..Len(results) : results[k].shape = "record"
    /\ \A k \in 1..Len(repairedData) : repairedData[k].shape = "record"
    /\ \A k \in 1..Len(erroneousData) :
        /\ erroneousData[k].shape = "record"
        /\ erroneousData[k].season = seasonLinks[placedIn("erroneous")[k][1]].season

\* C16: every return of scrapeGameweeks is a ScrapeOutcome
\* { hasErrorOccurred, result }, whatever the season page showed
C16_EveryReturnIsScrapeOutcome ==
    pc = "done" => returned.kind = "outcome"

\* gameweek index w was left without an accepted gameweek
skipped(w) ==
    /\ w < week
    /\ \A k \in 1..Len(allMatches) : allMatches[k].gameweek # w

\* C17: no gameweek index gets more than 3 attempts, every attempt that does not
\* accept the gameweek consumes one retry, an index whose 3 attempts all failed is
\* skipped, the index after it is attempted before the crawl returns, and the outcome
\* returned then has hasErrorOccurred true
C17_ThreeAttemptsThenSkip ==
    pc \in {"gameweek", "done"} /\ returned.kind # "array" =>
        /\ \A w \in 1..maxGameweeks : weekAttempts[w] <= GameweekMaxRetries
        /\ pc = "gameweek" /\ week <= maxGameweeks => weekAttempts[week] = retryCount
        /\ \A w \in 1..maxGameweeks :
            skipped(w) =>
                /\ weekAttempts[w] = GameweekMaxRetries
                /\ errorSignal
                /\ w < maxGameweeks /\ week > w + 1 => weekAttempts[w + 1] >= 1
                /\ pc = "done" =>
                    /\ returned.hasErrorOccurred
                    /\ \A v \in 1..maxGameweeks : weekAttempts[v] >= 1

\* the first index was skipped after 3 attempts, the second was accepted at its first
\* attempt, and the crawl returned its gameweek with the flag set
C17_Witness ==
    /\ pc = "done"
    /\ maxGameweeks = 2
    /\ skipped(1)
    /\ weekAttempts = <<3, 1>>
    /\ Len(allMatches) = 1
    /\ returned.hasErrorOccurred
    /\ Len(returned.result) = 1

\* the signatures of the matches of the gameweeks accepted so far
acceptedSignatures == Range(mapSignature(flatten(allMatches)))

\* C18: matchSignatures is at every point exactly the set of signatures of the matches
\* of the accepted gameweeks (so an attempt that is rejected or fails leaves it as
\* it was)
C18_SignaturesOfAcceptedOnly ==
    matchSignatures = acceptedSignatures

\* C19: an extracted gameweek without duplicates and with c new matches is a sparsity
\* anomaly exactly when c < E / 2, for every expected count E
C19_SparseIffBelowHalf ==
    lastAttempt.ending \in {"sparse", "accepted"} =>
        (lastAttempt.ending = "sparse" <=> 2 * lastAttempt.count < finalExpectedMatches)

\* C20: when verifyGameweekData does not raise, the data it returns is its input, with
\* the same gameweeks in the same order and with the same matches, and everything it
\* reports is a warning
C20_VerifierReturnsInput ==
    fpc = "verified" /\ ~verdict.threw =>
        /\ verdict.data = gameweeks
        /\ \A k \in 1..Len(verdict.report) : verdict.report[k].type = "warning"

reports(kind) == \E k \in 1..Len(verdict.report) : verdict.report[k].message = kind

\* an input with a sparse gameweek, a gameweek with a bad date and an empty gameweek
\* was verified without a raise and with all three warnings
C20_Witness ==
    /\ fpc = "verified"
    /\ ~verdict.threw
    /\ reports("fewer matches than expected")
    /\ reports("invalid or missing dates")
    /\ reports("empty")
    /\ \E k \in 1..Len(gameweeks) : Len(gameweeks[k].matches) = 0

C23_ReconnectTimeoutAbortsAttempt ==
    lastAttempt.error = msgReconnectTimeout =>
        pc = "done" /\ returned.hasErrorOccurred

\* C30: an attempt that extracted matches for gameweek index w had the label w
\* confirmed by the navigation wait; an attempt whose label was not w extracted
\* nothing, set the error flag and consumed a retry
C30_ExtractionOnlyAfterLabelConfirmed ==
    /\ lastAttempt.ending \in {"duplicate", "sparse", "accepted"}
            => lastAttempt.label = lastAttempt.week
    /\ lastAttempt.ending # "none" /\ lastAttempt.label # lastAttempt.week =>
        /\ lastAttempt.ending = "threw"
        /\ lastAttempt.count = 0
        /\ errorSignal
        /\ pc = "gameweek" /\ week = lastAttempt.week => retryCount >= 1

\* the first attempt at gameweek 2 timed out showing gameweek 1, the second was
\* accepted with the label 2
C30_Witness ==
    /\ weekAttempts = <<1, 2>>
    /\ lastAttempt.ending = "accepted"
    /\ lastAttempt.week = 2
    /\ lastAttempt.label = 2
    /\ lastAttempt.count >= 1
    /\ errorSignal

\* C22: no season crawl attempt ends the season loop of scrapeTournament with an
\* exception: the loop is never left before its last season
C22_NoExceptionCrossesIntoComposer ==
    ~(tpc = "threw" /\ seasonIndex >= 1 /\ seasonIndex <= Len(seasonLinks))

\* the input of the scenario: gameweek 1 with matchA, an empty gameweek 2, gameweek 3
\* with matchB (2022-08-01) before matchC (2022-07-25)
scenarioInput ==
    <<[gameweek |-> 1, matches |-> <<matchA>>],
      [gameweek |-> 2, matches |-> << >>],
      [gameweek |-> 3, matches |-> <<matchB, matchC>>]>>

\* C24 as stated: the output for the scenario lists matchC before matchB in its first
\* gameweek
C24_Original ==
    fpc # "input" /\ gameweeks = scenarioInput =>
        sortedOnce = <<[gameweek |-> 1, matches |-> <<matchC, matchB>>],
                       [gameweek |-> 2, matches |-> <<matchA>>]>>

\* C24: for the scenario sortGameweeksByDate drops the empty gameweek, puts the
\* gameweek of matchB and matchC first and renumbers; inside that gameweek the matches
\* keep their input order, matchB before matchC
C24_ScenarioKeepsMatchOrder ==
    fpc # "input" /\ gameweeks = scenarioInput =>
        sortedOnce = <<[gameweek |-> 1, matches |-> <<matchB, matchC>>],
                       [gameweek |-> 2, matches |-> <<matchA>>]>>

\* the scenario has been sorted
C24_Witness ==
    /\ fpc = "sorted"
    /\ gameweeks = scenarioInput
    /\ Len(sortedOnce) = 2

\* the valid dates among the matches of a gameweek, and the earliest of a set of them
validDates(gw) == {d \in Range(mapDate(gw.matches)) : isValidDate(d)}

minDate(S) == CHOOSE d \in S : \A other \in S : ~strLess(other, d)

\* C25: every gameweek of the output of sortGameweeksByDate is an input gameweek with
\* at least one validly dated match, and the output is in non-decreasing order of the
\* earliest valid date of each gameweek, whatever other dates its matches carry
C25_ValidOnlyOrderedByEarliestValidDate ==
    fpc # "input" =>
        /\ \A k \in 1..Len(sortedOnce) :
            /\ validDates(sortedOnce[k]) # {}
            /\ \E i \in 1..Len(gameweeks) : gameweeks[i].matches = sortedOnce[k].matches
        /\ \A k \in 1..(Len(sortedOnce) - 1) :
            ~strLess(minDate(validDates(sortedOnce[k + 1])),
                     minDate(validDates(sortedOnce[k])))

\* a gameweek without a valid date was discarded, and a gameweek holding an undated
\* match next to a dated one was moved behind a gameweek with an earlier date
C25_Witness ==
    /\ fpc = "sorted"
    /\ Len(gameweeks) = 3
    /\ Len(sortedOnce) = 2
    /\ validDates(gameweeks[2]) = {}
    /\ sortedOnce[1].matches = gameweeks[3].matches
    /\ sortedOnce[2].matches = gameweeks[1].matches
    /\ \E m \in Range(gameweeks[1].matches) : ~isValidDate(m.date)
    /\ validDates(gameweeks[1]) # {}

\* the check of a candidate found a non-empty standings table
standingsFound(c) ==
    /\ ~c.navigationFailed
    /\ ~scrapeLeagueStanding(c.page).threw
    /\ scrapeLeagueStanding(c.page).standings # << >>

\* every row of the page's table has the text 0 in its matchPlayed cell
onlyUnplayedRows(page) ==
    /\ Len(page.rows) > 0
    /\ \A i \in 1..Len(page.rows) : page.rows[i].played = s0

\* C26: when scrapeSeasonsLinks returns after its loop, every candidate was checked,
\* in dropdown order, whatever happened to the candidates before it, and the list
\* returned holds exactly the candidates whose standings were found non-empty, in that
\* order; a candidate whose table has only rows with matchPlayed 0 is not in it
C26_AcceptedAreCandidatesWithStandings ==
    dpc = "done" /\ Len(seasonOptions) > 0 =>
        LET found == SelectSeq(checkedSeasons, standingsFound) IN
        /\ Len(checkedSeasons) = Len(targetSeasons)
        /\ \A k \in 1..Len(targetSeasons) :
            /\ checkedSeasons[k].season = targetSeasons[k].season
            /\ checkedSeasons[k].url = targetSeasons[k].url
        /\ discovered.kind = "list"
        /\ Len(discovered.links) = Len(found)
        /\ \A k \in 1..Len(found) :
            /\ discovered.links[k].season = found[k].season
            /\ discovered.links[k].url = found[k].url
            /\ discovered.links[k].leagueStanding
                    = scrapeLeagueStanding(found[k].page).standings
            /\ ~onlyUnplayedRows(found[k].page)

\* two candidates whose tables have only rows with matchPlayed 0: the list is empty
C26_Witness ==
    /\ dpc = "done"
    /\ Len(checkedSeasons) = 2
    /\ \A k \in 1..2 :
        ~checkedSeasons[k].navigationFailed /\ onlyUnplayedRows(checkedSeasons[k].page)
    /\ discovered = DiscoveredList(<< >>)

\* C28: when scrapeLeagueStanding returns, it returns the empty list or all the rows
\* extracted from the page, and it returns the rows exactly when the page shows a
\* played result, the table was read, at least one row was extracted, and at least one
\* extracted row has a matchPlayed that is a number other than 0
C28_EmptyOrFullTable ==
    spc = "scraped" /\ ~standingResult.threw =>
        LET table == extractStandings(standingPage.rows) IN
        /\ standingResult.standings \in {<< >>, table}
        /\ standingResult.standings # << >> <=>
            /\ standingPage.hasResults
            /\ standingPage.failure = "none"
            /\ Len(table) > 0
            /\ \E i \in 1..Len(table) :
                ~table[i].matchPlayed.nan /\ table[i].matchPlayed.n # 0

\* a table with a played and an unplayed row was returned whole
C28_Witness ==
    /\ spc = "scraped"
    /\ Len(standingPage.rows) = 2
    /\ Len(standingResult.standings) = 2
    /\ standingResult.standings[1].matchPlayed = Num(0)
    /\ standingResult.standings[2].matchPlayed = Num(3)

\* the label is a pair of consecutive years YYYY/ZZZZ with 2019 <= YYYY <= 2025
yearOf(t) == parseInt10(t).n

inConfiguredRange(option) ==
    LET l == option.season IN
    /\ Len(l) = 9
    /\ l[5] = 47
    /\ \A i \in {1, 2, 3, 4, 6, 7, 8, 9} : isDigit(l[i])
    /\ yearOf(SubSeq(l, 6, 9)) = yearOf(SubSeq(l, 1, 4)) + 1
    /\ yearOf(SubSeq(l, 1, 4)) \in 2019..2025

\* C29: the candidates are exactly the options with a value whose label is a year pair
\* from 2019/2020 to 2025/2026
C29_CandidatesAreSeasonsInRange ==
    dpc \in {"check", "done"} /\ Len(seasonOptions) > 0 =>
        targetSeasons = SelectSeq(seasonOptions, inConfiguredRange)

\* C27: in league-only mode, when the landing page is not a league page, the run of
\* scrapeTournament is over without a season link, a crawl attempt, a bucket entry or
\* an artifact file
C27_NonLeagueSkippedWithoutArtifacts ==
    leaguesOnlyOption /\ landingKind = "other" =>
        /\ tpc = "done"
        /\ seasonLinks = << >>
        /\ attemptFlags = << >>
        /\ placements = << >>
        /\ results = << >> /\ repairedData = << >> /\ erroneousData = << >>
        /\ files = {}

\* the skip happened
C27_Witness ==
    /\ leaguesOnlyOption
    /\ landingKind = "other"
    /\ tpc = "done"
    /\ seasonIndex = 0

\* C35: at every point of scrapeGameweeks the accepted gameweeks hold no match identity
\* twice, within a gameweek or across gameweeks, and verifyGameweekData called on them
\* does not raise
C35_VerifierNeverRaisesInsideScrape ==
    pc \in {"gameweek", "done"} =>
        /\ pairwiseDistinct(flatten(allMatches))
        /\ ~verifyGameweekData(allMatches, finalExpectedMatches).threw

\* a duplicate anomaly was met after a gameweek had been accepted, and the crawl has
\* returned a result of two gameweeks
C35_Witness ==
    /\ pc = "done"
    /\ returned.kind = "outcome"
    /\ Len(returned.result) = 2
    /\ \E w \in 1..maxGameweeks : weekAttempts[w] > 1
    /\ matchSignatures # identities(flatten(allMatches))

\* every gameweek of the season was accepted on its first attempt
everyGameweekAcceptedFirst ==
    /\ maxGameweeks >= 1
    /\ week > maxGameweeks
    /\ Len(allMatches) = maxGameweeks
    /\ \A w \in 1..maxGameweeks : weekAttempts[w] = 1

\* C36: the hasErrorOccurred of a returned outcome is false exactly when every gameweek
\* was accepted on its first attempt; one rejected attempt makes it true for good
C36_ErrorFlagIsSticky ==
    pc = "done" /\ returned.kind = "outcome" =>
        (returned.hasErrorOccurred <=> ~everyGameweekAcceptedFirst)

\* every gameweek was accepted in the end, one of them only at a retry, and the
\* outcome is flagged
C36_Witness ==
    /\ pc = "done"
    /\ returned.kind = "outcome"
    /\ returned.hasErrorOccurred
    /\ maxGameweeks = 2
    /\ Len(allMatches) = 2
    /\ \E w \in 1..maxGameweeks : weekAttempts[w] = 2

\* C37: a call of sortGameweeksByDate leaves its input as it was, and every gameweek of
\* its output carries the matches of one input gameweek, in the same order and with the
\* same fields
C37_SortKeepsGameweekContent ==
    [][fpc = "input" /\ fpc' = "sorted" =>
        /\ gameweeks' = gameweeks
        /\ \A i \in 1..Len(sortedOnce') :
            \E k \in 1..Len(gameweeks) : sortedOnce'[i].matches = gameweeks[k].matches]_vars

\* the sort has moved a gameweek of two matches to the front and the input is still
\* in its own order
C37_Witness ==
    /\ fpc = "sorted"
    /\ Len(sortedOnce) >= 2
    /\ Len(sortedOnce[1].matches) = 2
    /\ sortedOnce[1].matches # gameweeks[1].matches
    /\ \E k \in 2..Len(gameweeks) : sortedOnce[1].matches = gameweeks[k].matches

\* C38: with options.maxRescrapeCount absent or 0 scrapeTournament works with a
\* maxRescrapeCount of 3: a season whose attempts are all flagged gets three rescrapes
\* before it is given up, and never more
C38_ZeroRescrapeCountMeansThree ==
    rescrapeOption = 0 /\ tpc # "idle" =>
        /\ maxRescrapeCount = 3
        /\ \A i \in 1..Len(seasonLinks) :
            /\ Len(attemptFlags[i]) <= 4
            /\ finished(i) /\ Len(pushesOf(i)) = 1 /\ bucketOf(i) = "erroneous"
                    => attemptFlags[i] = <<TRUE, TRUE, TRUE, TRUE>>

\* with the option 0 a season has been given up after its third rescrape
C38_Witness ==
    /\ rescrapeOption = 0
    /\ tpc = "done"
    /\ Len(seasonLinks) >= 1
    /\ attemptFlags[1] = <<TRUE, TRUE, TRUE, TRUE>>
    /\ placements[1] = <<1, "erroneous">>

\* C39: the entry pushed to erroneousData for a season is the result of the season's
\* first crawl attempt, and a step in which a rescrape comes back flagged stores nothing
\* else in results, repairedData or erroneousData
C39_ErroneousHoldsFirstAttempt ==
    [][/\ Len(erroneousData') > Len(erroneousData) =>
            /\ Len(erroneousData') = Len(erroneousData) + 1
            /\ SubSeq(erroneousData', 1, Len(erroneousData)) = erroneousData
            /\ erroneousData'[Len(erroneousData')].gameweeks = firstAttempt'.result
       /\ (/\ tpc = "rescrape"
           /\ Len(attemptFlags'[seasonIndex]) > Len(attemptFlags[seasonIndex])
           /\ attemptFlags'[seasonIndex][Len(attemptFlags'[seasonIndex])]) =>
            /\ results' = results
            /\ repairedData' = repairedData]_vars

\* a season was given up after its rescrapes and the erroneous bucket holds the one
\* gameweek its first attempt returned
C39_Witness ==
    /\ Len(erroneousData) = 1
    /\ placements # << >>
    /\ placements[Len(placements)][2] = "erroneous"
    /\ Len(attemptFlags[placements[Len(placements)][1]]) = 1 + maxRescrapeCount
    /\ tpc # "rescrape"
    /\ Len(erroneousData[1].gameweeks) = 1
    /\ erroneousData[1].gameweeks = firstAttempt.result

\* the gameweek the running navigation is for
navTarget == IF npc \in {"gameweek1", "gameweek1wait", "stepping", "steppingwait",
                         "steppingread"}
             THEN 1 ELSE navWeek

\* C31: on a page with only the next and previous controls, whenever the displayed
\* index changes during a navigation it moves by one gameweek towards the target of
\* that navigation, and so never past it
C31_SequentialSteppingNeverPassesTarget ==
    [][strategyUsed = "sequential" /\ displayed' # displayed =>
        \/ displayed < navTarget /\ displayed' = displayed + 1
        \/ displayed > navTarget /\ displayed' = displayed - 1]_vars

\* C32: when the navigation to Gameweek 1 completes, the page shows gameweek 1
C32_InitialNavigationEndsAtGameweek1 ==
    [][(npc' = "gameweek" /\ npc \in {"gameweek1wait", "stepping"}) => displayed' = 1]_vars

\* C33: every navigation takes the index controls when the page has them, else the
\* dropdown when the page has it, else the next and previous controls, and the updates
\* it asks the page for come from the controls of that strategy only
C33_StrategyByPriority ==
    /\ strategyUsed # "none" =>
        /\ hasWeeksDiv => strategyUsed = "index"
        /\ ~hasWeeksDiv /\ hasDropdown => strategyUsed = "dropdown"
        /\ ~hasWeeksDiv /\ ~hasDropdown => strategyUsed = "sequential"
    /\ \A k \in 1..Len(pendingUpdates) :
        /\ hasWeeksDiv => pendingUpdates[k].control = "week_num"
        /\ hasDropdown /\ ~hasWeeksDiv => pendingUpdates[k].control = "week_select"
        /\ pendingUpdates[k].control \in {"week_next", "week_prev"} =>
                ~hasWeeksDiv /\ ~hasDropdown

\* a page with both richer affordances has been asked for gameweek 2 through its index
\* controls
C33_Witness ==
    /\ hasWeeksDiv /\ hasDropdown
    /\ npc = "gameweekwait"
    /\ navWeek = 2
    /\ pendingUpdates = <<Update("week_num", 2)>>

\* C34: a stabilization wait completes only after at least two polls of its own
C34_WaitNeedsTwoPollsOfItsOwn ==
    wpc = "stable" => pollsInWait >= 2

\* C40: at most one browser session is open at any time, and none is open when a call
\* of scrapeSeasonsLinks or scrapeGameweeks has returned and until the next one starts
C40_SessionsAreSerial ==
    /\ openSessions <= 1
    /\ sessPc \in {"call", "returned", "ended"} => openSessions = 0
    /\ sessPc = "returned" => closedSessions = callsMade

\* a third call is running after a call that returned early and one that caught an error
C40_Witness ==
    /\ sessPc = "try"
    /\ callsMade = 3
    /\ openSessions = 1
    /\ closedSessions = 2

====
